---- MODULE Spec2Model ----
(***************************************************************************)
(* State-machine model of the report-sim orchestration layer:              *)
(*   - services/geminiService.ts : retryRequest, analyzeArticle,           *)
(*                                 generateReplyReaction                   *)
(*   - App (src/unnamed/part_001): handlePublish, handleReset,             *)
(*                                 handleFollowUp, handleLoadHistory,      *)
(*                                 handleSecretClick, handlePinSubmit      *)
(*   - SimulationDashboard (src/unnamed/part_000): platform filter, reply  *)
(*                                 form, handleSubmitReply                 *)
(* Sequences are 1-based: position k of a sequence models JS index k-1.    *)
(* One step of the model is one event-loop task: a UI handler run up to    *)
(* its first await, the settlement of one generateContent call together    *)
(* with every continuation (microtask) that follows it, or one timer.      *)
(***************************************************************************)
EXTENDS Integers, Sequences, FiniteSets, TLC

\* ----------------------------------------------------------------- bounds
\* Total number of handlePublish invocations explored.
MaxPublish == 1
\* Total number of accepted reply submissions explored.
MaxReply == 2
\* The same two totals for the specification that observes the service layer.
SvcMaxPublish == 1
SvcMaxReply == 1
\* The same two totals for the specification that varies the article options.
ReqMaxPublish == 1
ReqMaxReply == 1
\* The same two totals for the specification that loads results from history.
HistMaxPublish == 2
HistMaxReply == 1
\* The same two totals for the specification of the App component.
AppMaxPublish == 2
AppMaxReply == 1
\* The total number of submissions for the specification of follow-ups.
FollowMaxPublish == 2
\* The total number of submissions for the specification of the market panel.
StockMaxPublish == 1

\* ------------------------------------------------------ program constants
\* retryRequest(requestFn, retries = 3, delay = 2000)
DefaultRetries == 3
BaseDelay == 2000
\* error?.status === 429 || error?.code === 429
RateLimitCode == 429
\* useState<number | null>(null): the null index (positions are 1-based)
Null == 0

\* ------------------------------------------------------------ text values
\* Strings are sequences of one-character strings.
Blank == " "
\* String.prototype.trim on the modelled strings
RECURSIVE TrimLeft(_)
TrimLeft(s) ==
  IF s = <<>> THEN <<>>
  ELSE IF Head(s) = Blank THEN TrimLeft(Tail(s)) ELSE s

RECURSIVE TrimRight(_)
TrimRight(s) ==
  IF s = <<>> THEN <<>>
  ELSE IF s[Len(s)] = Blank THEN TrimRight(SubSeq(s, 1, Len(s) - 1)) ELSE s

\* Mutant of Trim: the text is taken as it is, blanks included.
TrimKeepsBlanks(s) == s

Trim(s) == TrimRight(TrimLeft(s))

\* String.prototype.includes
Includes(s, sub) ==
  \E i \in 0..(Len(s) - Len(sub)) : SubSeq(s, i + 1, i + Len(sub)) = sub

\* JS truthiness of a string: the empty string is falsy
TruthyStr(s) == s # <<>>

\* Reply drafts the user can type into the reply input
ReplyTexts == { <<>>, <<" ">>, <<" ", "a">> }

\* ------------------------------------------------------ years and numbers
\* new Date().getFullYear(): the year the clock shows
CurrentYear == 2026

Digits == << "0", "1", "2", "3", "4", "5", "6", "7", "8", "9" >>

IsDigit(c) == \E i \in 1..10 : Digits[i] = c

DigitValue(c) == (CHOOSE i \in 1..10 : Digits[i] = c) - 1

\* Number.prototype.toString() of a non-negative integer
RECURSIVE NumberToString(_)
NumberToString(n) ==
  IF n < 10 THEN << Digits[n + 1] >>
  ELSE Append(NumberToString(n \div 10), Digits[(n % 10) + 1])

\* A JS number: an integer or NaN
NaN == [ nan |-> TRUE, n |-> 0 ]
Num(n) == [ nan |-> FALSE, n |-> n ]

\* The value of the longest run of digits s starts with, after acc
RECURSIVE DigitRun(_, _)
DigitRun(s, acc) ==
  IF s = <<>> \/ ~IsDigit(Head(s)) THEN acc
  ELSE DigitRun(Tail(s), acc * 10 + DigitValue(Head(s)))

\* parseInt(s): skips leading white space, reads an optional sign and the
\* longest run of digits, ignores what follows; NaN when no digit is read
ParseInt(s) ==
  LET t == TrimLeft(s)
      signed == t # <<>> /\ Head(t) \in { "-", "+" }
      u == IF signed THEN Tail(t) ELSE t
  IN IF u = <<>> \/ ~IsDigit(Head(u)) THEN NaN
     ELSE IF signed /\ Head(t) = "-" THEN Num(0 - DigitRun(u, 0))
     ELSE Num(DigitRun(u, 0))

\* a < b, a >= b, a > b for a JS number a and an integer b: false on NaN
Lt(a, b) == ~a.nan /\ a.n < b
Ge(a, b) == ~a.nan /\ a.n >= b
Gt(a, b) == ~a.nan /\ a.n > b

\* Values the editor can leave in article.targetYear: the empty string, text
\* that is no number, and years on both sides of every bracket boundary
TargetYears ==
  { <<>>, << "x" >> }
    \cup { NumberToString(y) : y \in { 1985, 1989, 1990, 1999, 2000, 2009, 2010,
                                 CurrentYear + 5, CurrentYear + 6 } }

\* ------------------------------------------------------------ data model
\* Article (types.ts INITIAL_ARTICLE); title 0 and content 0 model the empty
\* title and the empty content.
INITIAL_ARTICLE ==
  [ title |-> 0, category |-> "society", content |-> 0, author |-> <<"k">>,
    isFakeNews |-> FALSE, isCrazyMode |-> FALSE,
    isEmergencyMode |-> FALSE, isTimeMachineMode |-> FALSE,
    targetYear |-> NumberToString(CurrentYear),
    previousArticleContext |-> <<>> ]

Titles == {0, 1}

\* Values of article.category and article.content (0 is the empty content)
Categories == { "society", "politics" }

Contents == {0, 1}

\* useState<SimulationResult | null>(null)
NullResult ==
  [ oid |-> 0, publicSentiment |-> "null", impactSummary |-> "null",
    comments |-> <<>> ]

MkComment(p, u, rs) ==
  [ platform |-> p, username |-> u, content |-> u, likes |-> 1,
    sentiment |-> "neutral", replies |-> rs ]

MkReply(u, c, l) == [ username |-> u, content |-> c, likes |-> l ]

\* The comment list of a decoded SimulationResult: two platforms, so that a
\* platform filter hides comments, and one comment that already has a reply.
GeneratedComments ==
  << MkComment("SNS", "u1", <<>>),
     MkComment("Portal", "u2", << MkReply(<<"u", "9">>, <<"z">>, 2) >>) >>

\* The object a response without stockAnalysis and extraIndices decodes to
GeneratedResult == [ comments |-> GeneratedComments ]

\* A StockAnalysis with one affected sector
MkStockAnalysis(s, e, c) ==
  [ indexName |-> "KOSPI", startValue |-> s, endValue |-> e,
    affectedSectors |-> << [ name |-> "sector", change |-> c ] >> ]

\* Index values and sector changes of a decoded StockAnalysis
StockStarts == { 2, 3 }
StockEnds == { 1, 2, 3 }
SectorChanges == { -1, 0, 1 }

\* The objects a response with one StockAnalysis and extraIndices decodes to
StockResults ==
  { [ comments |-> GeneratedComments,
      stockAnalysis |-> << MkStockAnalysis(s, e, c) >>,
      extraIndices |-> [ nationalAnxiety |-> 50, economicStability |-> 50,
                         angerIndex |-> 50 ] ] :
      s \in StockStarts, e \in StockEnds, c \in SectorChanges }

\* Reply[] values a decoded sub-flow response can hold
GeneratedReplies ==
  { <<>>,
    << MkReply(<<"n", "1">>, <<"x">>, 3), MkReply(<<"n", "2">>, <<"y">>, 0) >> }

\* ------------------------------------------------- generation call results
\* A failure thrown by ai.models.generateContent: status/code 0 and
\* hasMessage = FALSE model absent (undefined) fields.
MkError(st, cd, hm, msg) ==
  [ status |-> st, code |-> cd, hasMessage |-> hm, message |-> msg ]

CallErrors ==
  { MkError(429, 0, TRUE, <<"q">>),
    MkError(0, 429, FALSE, <<>>),
    MkError(0, 0, TRUE, <<"e", "4", "2", "9">>),
    MkError(500, 500, TRUE, <<"4", "2", "0", "9">>),
    MkError(0, 0, FALSE, <<>>) }

\* response.text: undefined, the empty string, text that is not JSON, or the
\* JSON encoding of a value.
NoText == [ defined |-> FALSE, empty |-> TRUE, wellFormed |-> FALSE, value |-> <<>> ]
EmptyText == [ defined |-> TRUE, empty |-> TRUE, wellFormed |-> FALSE, value |-> <<>> ]
GarbageText == [ defined |-> TRUE, empty |-> FALSE, wellFormed |-> FALSE, value |-> <<>> ]
JsonText(v) == [ defined |-> TRUE, empty |-> FALSE, wellFormed |-> TRUE, value |-> v ]

\* if (response.text): undefined and "" are falsy
TruthyText(t) == t.defined /\ ~t.empty

\* JSON.parse: throws a SyntaxError on text that is not JSON
JSONParse(t) ==
  IF t.wellFormed THEN [ threw |-> FALSE, value |-> t.value ]
  ELSE [ threw |-> TRUE, value |-> <<>> ]

NoError == MkError(0, 0, FALSE, <<>>)

Resolved(t) == [ ok |-> TRUE, text |-> t, error |-> NoError ]
Rejected(e) == [ ok |-> FALSE, text |-> NoText, error |-> e ]

\* What one generateContent call can settle with, per kind of request.
CallOutcomes(kind) ==
  { Rejected(e) : e \in CallErrors }
    \cup { Resolved(NoText), Resolved(EmptyText), Resolved(GarbageText) }
    \cup ( IF kind = "publish"
           THEN { Resolved(JsonText(GeneratedResult)) }
           ELSE { Resolved(JsonText(rs)) : rs \in GeneratedReplies } )

\* Responses that decode to a result with a StockAnalysis
StockOutcomes == { Resolved(JsonText(v)) : v \in StockResults }

\* ------------------------------------------------------------ retryRequest
\* Mutant of IsRateLimit: the message field is not inspected.
IsRateLimitStructuredOnly(e) ==
  \/ e.status = RateLimitCode
  \/ e.code = RateLimitCode

\* error?.status === 429 || error?.code === 429 || error?.message?.includes('429')
IsRateLimit(e) ==
  \/ e.status = RateLimitCode
  \/ e.code = RateLimitCode
  \/ (e.hasMessage /\ Includes(e.message, <<"4", "2", "9">>))

\* Mutants of ShouldRetry: one retry too many; every failure retried.
ShouldRetryOffByOne(retries, e) == retries >= 0 /\ IsRateLimit(e)

ShouldRetryAnyFailure(retries, e) == retries > 0

\* if (retries > 0 && (...429...)): wait, then retry
ShouldRetry(retries, e) == retries > 0 /\ IsRateLimit(e)

\* What retryRequest does when the awaited requestFn() settles with o:
\*   "retry"  - setTimeout(delay), then retryRequest(fn, retries - 1, delay * 2)
\*   "return" - return the response
\*   "throw"  - throw error
RetryDecision(retries, o) ==
  IF o.ok THEN "return"
  ELSE IF ShouldRetry(retries, o.error) THEN "retry"
  ELSE "throw"

\* A settled promise
Fulfilled(v) == [ rejected |-> FALSE, value |-> v ]
Thrown == [ rejected |-> TRUE, value |-> <<>> ]

\* ---------------------------------------------------------- analyzeArticle
\* The catch block's placeholder result (a fresh object each time)
Placeholder(oid) ==
  [ oid |-> oid,
    viralityScore |-> 0, reliabilityScore |-> 0, controversyScore |-> 0,
    publicSentiment |-> "Error", impactSummary |-> "failed",
    viewCountEstimate |-> 0, shareCount |-> 0,
    comments |-> <<>>, otherMediaCoverage |-> <<>> ]

\* JSON.parse(response.text) as SimulationResult: the decoded object v as it
\* is, with the optional stockAnalysis and extraIndices it holds (a fresh
\* object each time)
Decoded(oid, v) ==
  IF "stockAnalysis" \in DOMAIN v
  THEN [ oid |-> oid,
         viralityScore |-> 80, reliabilityScore |-> 40, controversyScore |-> 60,
         publicSentiment |-> "Mixed", impactSummary |-> "impact",
         viewCountEstimate |-> 1000, shareCount |-> 100,
         comments |-> v.comments, otherMediaCoverage |-> << "media" >>,
         stockAnalysis |-> v.stockAnalysis, extraIndices |-> v.extraIndices ]
  ELSE [ oid |-> oid,
         viralityScore |-> 80, reliabilityScore |-> 40, controversyScore |-> 60,
         publicSentiment |-> "Mixed", impactSummary |-> "impact",
         viewCountEstimate |-> 1000, shareCount |-> 100,
         comments |-> v.comments, otherMediaCoverage |-> << "media" >> ]

\* Mutant of AnalyzeArticleSettle: the catch block is missing.
AnalyzeArticleNoCatch(decision, o, oid) ==
  IF decision = "throw" THEN Thrown
  ELSE IF TruthyText(o.text)
       THEN IF JSONParse(o.text).threw
            THEN Thrown
            ELSE Fulfilled(Decoded(oid, JSONParse(o.text).value))
       ELSE Thrown

\* analyzeArticle once retryRequest has settled: decision is "return" (with
\* outcome o) or "throw"; everything from line 186 on sits in one try/catch.
AnalyzeArticleSettle(decision, o, oid) ==
  IF decision = "throw" THEN Fulfilled(Placeholder(oid))
  ELSE IF TruthyText(o.text)
       THEN IF JSONParse(o.text).threw
            THEN Fulfilled(Placeholder(oid))
            ELSE Fulfilled(Decoded(oid, JSONParse(o.text).value))
       ELSE Fulfilled(Placeholder(oid))

\* Mutant of GenerateReplyReactionSettle: the catch block is missing.
GenerateReplyReactionNoCatch(decision, o) ==
  IF decision = "throw" THEN Thrown
  ELSE IF TruthyText(o.text)
       THEN IF JSONParse(o.text).threw
            THEN Thrown
            ELSE Fulfilled(JSONParse(o.text).value)
       ELSE Fulfilled(<<>>)

\* Mutant of GenerateReplyReactionSettle: a failure yields a stock reply.
GenerateReplyReactionStockReply(decision, o) ==
  IF decision = "throw" THEN Fulfilled(<< MkReply(<<"n", "0">>, <<"w">>, 0) >>)
  ELSE IF TruthyText(o.text)
       THEN IF JSONParse(o.text).threw
            THEN Fulfilled(<< MkReply(<<"n", "0">>, <<"w">>, 0) >>)
            ELSE Fulfilled(JSONParse(o.text).value)
       ELSE Fulfilled(<< MkReply(<<"n", "0">>, <<"w">>, 0) >>)

\* --------------------------------------------------- generateReplyReaction
GenerateReplyReactionSettle(decision, o) ==
  IF decision = "throw" THEN Fulfilled(<<>>)
  ELSE IF TruthyText(o.text)
       THEN IF JSONParse(o.text).threw
            THEN Fulfilled(<<>>)
            ELSE Fulfilled(JSONParse(o.text).value)
       ELSE Fulfilled(<<>>)

\* ----------------------------------------------------- request composition
\* A piece of prompt text is modelled by what identifies it and by the
\* platforms, media and channels its text names (mentions).

\* targetYear = article.isTimeMachineMode && article.targetYear
\*                ? parseInt(article.targetYear) : currentYear
TargetYear(article) ==
  IF article.isTimeMachineMode /\ TruthyStr(article.targetYear)
  THEN ParseInt(article.targetYear)
  ELSE Num(CurrentYear)

\* Mutant of EraBracket: a stored target year selects the bracket whether or
\* not the time-machine switch is on.
EraBracketByStoredYear(article) ==
  LET targetYear == IF TruthyStr(article.targetYear)
                    THEN ParseInt(article.targetYear)
                    ELSE Num(CurrentYear)
  IN IF article.isTimeMachineMode \/ TruthyStr(article.targetYear)
     THEN IF Lt(targetYear, 1990) THEN "pre1990"
          ELSE IF Ge(targetYear, 1990) /\ Lt(targetYear, 2000) THEN "pc-comm"
          ELSE IF Ge(targetYear, 2000) /\ Lt(targetYear, 2010) THEN "early-web"
          ELSE IF Gt(targetYear, CurrentYear + 5) THEN "future"
          ELSE "default"
     ELSE "present"

\* Mutant of EraBracket: 1990 falls on the print/broadcast side.
EraBracketOffByOne(article) ==
  LET targetYear == TargetYear(article)
  IN IF article.isTimeMachineMode
     THEN IF ~Gt(targetYear, 1990) /\ ~targetYear.nan THEN "pre1990"
          ELSE IF Ge(targetYear, 1990) /\ Lt(targetYear, 2000) THEN "pc-comm"
          ELSE IF Ge(targetYear, 2000) /\ Lt(targetYear, 2010) THEN "early-web"
          ELSE IF Gt(targetYear, CurrentYear + 5) THEN "future"
          ELSE "default"
     ELSE "present"

\* analyzeArticle: the if/else chain that fills eraContextFull
EraBracket(article) ==
  LET targetYear == TargetYear(article)
  IN IF article.isTimeMachineMode
     THEN IF Lt(targetYear, 1990) THEN "pre1990"
          ELSE IF Ge(targetYear, 1990) /\ Lt(targetYear, 2000) THEN "pc-comm"
          ELSE IF Ge(targetYear, 2000) /\ Lt(targetYear, 2010) THEN "early-web"
          ELSE IF Gt(targetYear, CurrentYear + 5) THEN "future"
          ELSE "default"
     ELSE "present"

\* What the era text of each bracket names
EraMentions(bracket) ==
  CASE bracket = "pre1990" ->
         { "SNS", "online-comment", "reader-letter", "radio", "teahouse",
           "wall-poster", "newspaper", "broadcaster" }
    [] bracket = "pc-comm" ->
         { "pc-comm", "pc-comm-board", "pc-room", "newspaper", "broadcaster",
           "sports-paper" }
    [] bracket = "early-web" ->
         { "mini-homepage", "messenger", "web-cafe", "portal", "internet-news" }
    [] bracket = "future" ->
         { "neural-link", "colony-board", "ai-network", "vr-lobby", "ai-news-bot" }
    [] bracket = "default" ->
         { "SNS", "community", "cable-tv", "internet-news", "video-channel" }
    [] OTHER ->
         { "newspaper", "internet-news", "economic-paper", "video-channel" }

\* eraContextFull: the text of the selected bracket, which interpolates
\* ${targetYear} in every time-machine bracket
EraContextFull(article) ==
  [ bracket |-> EraBracket(article),
    year |-> IF article.isTimeMachineMode THEN TargetYear(article) ELSE NaN,
    mentions |-> EraMentions(EraBracket(article)) ]

\* Mutant of GetEraContext: the bracket tests include their upper year.
GetEraContextInclusive(article) ==
  LET targetYear == TargetYear(article)
      bracket ==
        IF article.isTimeMachineMode
        THEN IF Lt(targetYear, 1990 + 1) THEN "pre1990"
             ELSE IF Lt(targetYear, 2000 + 1) THEN "pc-comm"
             ELSE IF Lt(targetYear, 2010 + 1) THEN "early-web"
             ELSE IF Gt(targetYear, CurrentYear + 5) THEN "future"
             ELSE "default"
        ELSE "present"
  IN [ bracket |-> bracket,
       year |-> IF article.isTimeMachineMode THEN targetYear ELSE Num(2024),
       mentions |-> {} ]

\* getEraContext(article): the one-line era text of the reply request
GetEraContext(article) ==
  LET targetYear == TargetYear(article)
      bracket ==
        IF article.isTimeMachineMode
        THEN IF Lt(targetYear, 1990) THEN "pre1990"
             ELSE IF Lt(targetYear, 2000) THEN "pc-comm"
             ELSE IF Lt(targetYear, 2010) THEN "early-web"
             ELSE IF Gt(targetYear, CurrentYear + 5) THEN "future"
             ELSE "default"
        ELSE "present"
  IN [ bracket |-> bracket,
       year |-> IF article.isTimeMachineMode THEN targetYear ELSE Num(2024),
       mentions |->
         CASE bracket = "pre1990" ->
                { "internet", "reader-letter", "radio", "wall-poster" }
           [] bracket = "pc-comm" -> { "pc-comm" }
           [] bracket = "early-web" -> { "mini-homepage", "internet" }
           [] bracket = "present" -> { "online-comment" }
           [] OTHER -> {} ]

\* The instruction blocks of the three modes and of the normal mode
EmergencyBlock == [ mode |-> "emergency", mentions |-> { "no-signal" } ]
CrazyBlock == [ mode |-> "crazy", mentions |-> { "meme-coin" } ]
FakeNewsBlock == [ mode |-> "fakeNews", mentions |-> {} ]
NormalBlock == [ mode |-> "normal", mentions |-> {} ]

\* if (cond) modeInstructions.push(block)
Push(list, cond, block) == IF cond THEN Append(list, block) ELSE list

\* Mutant of ModeInstructions: the flags are tested in the order fakeNews,
\* crazy, emergency.
ModeInstructionsReversed(article) ==
  LET m1 == Push(<<>>, article.isFakeNews, FakeNewsBlock)
      m2 == Push(m1, article.isCrazyMode, CrazyBlock)
      m3 == Push(m2, article.isEmergencyMode, EmergencyBlock)
  IN IF Len(m3) = 0 THEN << NormalBlock >> ELSE m3

\* Mutant of ModeInstructions: the normal block is pushed unless all three
\* modes are active.
ModeInstructionsNormalUnlessAll(article) ==
  LET m1 == Push(<<>>, article.isEmergencyMode, EmergencyBlock)
      m2 == Push(m1, article.isCrazyMode, CrazyBlock)
      m3 == Push(m2, article.isFakeNews, FakeNewsBlock)
  IN IF Len(m3) < 3 THEN Append(m3, NormalBlock) ELSE m3

\* analyzeArticle: modeInstructions
ModeInstructions(article) ==
  LET m1 == Push(<<>>, article.isEmergencyMode, EmergencyBlock)
      m2 == Push(m1, article.isCrazyMode, CrazyBlock)
      m3 == Push(m2, article.isFakeNews, FakeNewsBlock)
  IN IF Len(m3) = 0 THEN << NormalBlock >> ELSE m3

\* The fixed request section of the prompt: item 1 asks for comments that
\* reflect the platforms (SNS, female and male communities, anonymous boards,
\* portals), item 6 names an extremist community among what to avoid.
OutputRequirements ==
  [ mentions |-> { "SNS", "community", "anonymous-board", "portal",
                   "spam-bot" } ]

\* const previousContext = article.previousArticleContext ? `...` : "":
\* the section's text, or the empty sequence for the empty string
PreviousContext(article) ==
  IF TruthyStr(article.previousArticleContext)
  THEN << "follow-up", article.previousArticleContext >>
  ELSE <<>>

\* Mutant of PromptSections: the prior-context section follows the article
\* metadata.
PromptSectionsContextAfterArticle(article) ==
  << "era", "article" >>
    \o (IF PreviousContext(article) # <<>> THEN << "previousContext" >> ELSE <<>>)
    \o << "modes", "requirements" >>

\* analyzeArticle: the sections of the prompt template in their order; an
\* interpolated empty string leaves no section
PromptSections(article) ==
  << "era" >>
    \o (IF PreviousContext(article) # <<>> THEN << "previousContext" >> ELSE <<>>)
    \o << "article", "modes", "requirements" >>

\* analyzeArticle: prompt
AnalyzePrompt(article) ==
  [ sections |-> PromptSections(article),
    era |-> EraContextFull(article),
    previousContext |-> PreviousContext(article),
    title |-> article.title,
    category |-> article.category,
    content |-> article.content,
    author |-> article.author,
    modes |-> ModeInstructions(article),
    requirements |-> OutputRequirements ]

\* generateReplyReaction: prompt; each of the three mode lines is the mode's
\* label or the empty string
ReplyPrompt(article, originalComment, reporterReply) ==
  [ era |-> GetEraContext(article),
    modes |-> << IF article.isEmergencyMode THEN "emergency" ELSE "",
                 IF article.isCrazyMode THEN "crazy" ELSE "",
                 IF article.isFakeNews THEN "fakeNews" ELSE "" >>,
    title |-> article.title,
    commentUser |-> originalComment.username,
    commentContent |-> originalComment.content,
    platform |-> originalComment.platform,
    reporterReply |-> reporterReply ]

\* ------------------------------------------------------------------ state
VARIABLES
  appState,     \* App: AppState.EDITOR | SIMULATING | RESULT
  article,      \* App: the live article
  result,       \* App: SimulationResult | null
  history,      \* App: [{article, result}], newest first
  showHistory,  \* App: the history drawer is open
  dashboard,    \* SimulationDashboard's local state (reset when unmounted)
  tasks,        \* the pending async invocations (handlePublish / handleSubmitReply)
  pin,          \* App: secretClickCount, showPinModal, pinInput
  settled,      \* observation: the invocation that settled in the last step, if any
  nPub,         \* handlePublish invocations so far
  nReply        \* accepted reply submissions so far

vars ==
  << appState, article, result, history, showHistory, dashboard, tasks,
     pin, settled, nPub, nReply >>

\* SimulationDashboard's useState initial values
DashInit ==
  [ selectedPlatform |-> "ALL", localComments |-> <<>>, replyingTo |-> Null,
    replyText |-> <<>>, generatingReplyId |-> Null ]

\* App's useState initial values of the secret-mode state
PinInit == [ secretClickCount |-> 0, showPinModal |-> FALSE, pinInput |-> <<>> ]

\* No invocation settled in the last step
NoSettle ==
  [ kind |-> "none", idx |-> Null, live |-> FALSE, outs |-> <<>>,
    final |-> Resolved(NoText), calls |-> 0, waits |-> <<>>,
    decision |-> "none", promise |-> Thrown, text |-> <<>> ]

\* A pending invocation, suspended in retryRequest. kind, art, idx, comment and
\* text are the values its closure captured, prompt is the request text that
\* requestFn sends on every call; live says that the dashboard
\* instance that started it is still mounted; calls, waits and outs record
\* what its retryRequest has done so far.
NewTask(kind, art, idx, comment, text) ==
  [ kind |-> kind, art |-> art, idx |-> idx, comment |-> comment, text |-> text,
    prompt |-> IF kind = "publish" THEN AnalyzePrompt(art)
               ELSE ReplyPrompt(art, comment, text),
    live |-> TRUE,
    retries |-> DefaultRetries, delay |-> BaseDelay, phase |-> "call",
    calls |-> 1, waits |-> <<>>, outs |-> <<>> ]

NoComment == MkComment("", "", <<>>)

\* The class of a call outcome as the retry policy's contract names it:
\* "rate" for a failure carrying a rate-limit signal (status 429, code 429 or
\* a message containing "429"), "other" for any other failure, "ok" for a response.
OutcomeClass(o) ==
  IF o.ok THEN "ok"
  ELSE IF \/ o.error.status = 429
          \/ o.error.code = 429
          \/ (o.error.hasMessage /\
               \E i \in 1..Len(o.error.message) :
                  /\ i + 2 <= Len(o.error.message)
                  /\ o.error.message[i] = "4"
                  /\ o.error.message[i + 1] = "2"
                  /\ o.error.message[i + 2] = "9")
       THEN "rate"
       ELSE "other"

\* ------------------------------------------------------ rendering helpers
\* App render: the dashboard is mounted iff appState is RESULT and result is set
Mounted(as, res) == as = "RESULT" /\ res # NullResult

\* availablePlatforms
AvailablePlatforms(lc) == {"ALL"} \cup { lc[i].platform : i \in DOMAIN lc }

\* filteredComments
FilteredComments(sel, lc) ==
  IF sel = "ALL" THEN lc ELSE SelectSeq(lc, LAMBDA c : c.platform = sel)

\* {result.stockAnalysis && result.stockAnalysis.length > 0 && (...)}: the
\* StockAnalysis entries the market panel shows
ShownStocks(as, res) ==
  IF Mounted(as, res) /\ "stockAnalysis" \in DOMAIN res
  THEN res.stockAnalysis ELSE <<>>

\* const isStockUp = stockData.endValue >= stockData.startValue
IsStockUp(stockData) == stockData.endValue >= stockData.startValue

\* const stockDiff = stockData.endValue - stockData.startValue
StockDiff(stockData) == stockData.endValue - stockData.startValue

\* className of the index's change line: isStockUp ? 'text-red-600' : 'text-blue-600'
IndexClassName(stockData) ==
  IF IsStockUp(stockData) THEN "text-red-600" ELSE "text-blue-600"

\* {isStockUp ? up-triangle : down-triangle} in front of the index's change
IndexMarker(stockData) == IF IsStockUp(stockData) THEN "up" ELSE "down"

\* className of a sector's change: sector.change > 0 ? 'text-red-600' :
\* sector.change < 0 ? 'text-blue-600' : 'text-gray-500'
SectorClassName(change) ==
  IF change > 0 THEN "text-red-600"
  ELSE IF change < 0 THEN "text-blue-600"
  ELSE "text-gray-500"

\* The reply form is rendered for displayed position idx
FormShown(d, idx) ==
  /\ idx \in 1..Len(FilteredComments(d.selectedPlatform, d.localComments))
  /\ d.replyingTo = idx

\* Mutant of AppendReplies: the replies replace those already there.
AppendRepliesOverwrite(lc, targetCommentIdx, rs) ==
  [ i \in DOMAIN lc |->
      IF i = targetCommentIdx THEN [ lc[i] EXCEPT !.replies = rs ] ELSE lc[i] ]

\* Mutant of AppendReplies: the index test is missing.
AppendRepliesEverywhere(lc, targetCommentIdx, rs) ==
  [ i \in DOMAIN lc |-> [ lc[i] EXCEPT !.replies = lc[i].replies \o rs ] ]

\* prev.map((c, i) => i === targetCommentIdx ? {...c, replies: [...c.replies, ...rs]} : c)
AppendReplies(lc, targetCommentIdx, rs) ==
  [ i \in DOMAIN lc |->
      IF i = targetCommentIdx
      THEN [ lc[i] EXCEPT !.replies = lc[i].replies \o rs ]
      ELSE lc[i] ]

\* The dashboard state after App re-renders with (as, res), d being the
\* dashboard state left by the handler itself: unmount drops the state, mount
\* starts from the initial state, and useEffect([result]) re-initialises
\* localComments whenever the result object changes.
Render(as, res, d) ==
  IF ~Mounted(as, res) THEN DashInit
  ELSE IF ~Mounted(appState, result)
       THEN [ DashInit EXCEPT !.localComments = res.comments ]
       ELSE IF res.oid # result.oid
            THEN [ d EXCEPT !.localComments = res.comments ]
            ELSE d

\* Pending reply invocations of an unmounted dashboard instance keep running,
\* but their state updates no longer reach any mounted component.
Orphan(as, res, ts) ==
  IF Mounted(appState, result) /\ ~Mounted(as, res)
  THEN [ k \in DOMAIN ts |->
           IF ts[k].kind = "reply" THEN [ ts[k] EXCEPT !.live = FALSE ] ELSE ts[k] ]
  ELSE ts

RemoveAt(ts, k) == SubSeq(ts, 1, k - 1) \o SubSeq(ts, k + 1, Len(ts))

\* ------------------------------------------------------------------- Init
Init ==
  /\ appState = "EDITOR"
  /\ article = INITIAL_ARTICLE
  /\ result = NullResult
  /\ history = <<>>
  /\ showHistory = FALSE
  /\ dashboard = DashInit
  /\ tasks = <<>>
  /\ pin = PinInit
  /\ settled = NoSettle
  /\ nPub = 0
  /\ nReply = 0

\* ------------------------------------------------------------ App actions
\* ArticleEditor (not part of the sources read): the user edits the article
\* through setArticle while the editor is shown and idle.
EditArticle(t) ==
  /\ appState = "EDITOR"
  /\ t # article.title
  /\ article' = [ article EXCEPT !.title = t ]
  /\ UNCHANGED << appState, result, history, showHistory, dashboard, tasks, nPub, nReply, pin >>

\* ArticleEditor (not part of the sources read): the user picks the category
\* and writes the content through setArticle.
SetArticleText(cat, co) ==
  /\ appState = "EDITOR"
  /\ article' = [ article EXCEPT !.category = cat, !.content = co ]
  /\ article' # article
  /\ UNCHANGED << appState, result, history, showHistory, dashboard, tasks, nPub, nReply, pin >>

\* ArticleEditor (not part of the sources read): the user sets the three mode
\* switches, the time-machine switch and the target year through setArticle.
SetArticleOptions(e, c, f, tm, y) ==
  /\ appState = "EDITOR"
  /\ article' = [ article EXCEPT !.isEmergencyMode = e, !.isCrazyMode = c,
                                 !.isFakeNews = f, !.isTimeMachineMode = tm,
                                 !.targetYear = y ]
  /\ article' # article
  /\ UNCHANGED << appState, result, history, showHistory, dashboard, tasks, nPub, nReply, pin >>

\* ArticleEditor (not part of the sources read): the publish button calls
\* onPublish and is disabled while isSimulating.
CanPublish == appState = "EDITOR"

\* handlePublish up to its await: setAppState(SIMULATING), then analyzeArticle
\* runs up to the first generateContent call inside retryRequest.
HandlePublish ==
  /\ CanPublish
  /\ appState' = "SIMULATING"
  /\ tasks' = Append(Orphan("SIMULATING", result, tasks),
                     NewTask("publish", article, Null, NoComment, <<>>))
  /\ dashboard' = Render("SIMULATING", result, dashboard)
  /\ nPub' = nPub + 1
  /\ UNCHANGED << article, result, history, showHistory, nReply, pin >>

\* Mutant of HandleReset: the result is cleared but the app stays in RESULT.
HandleResetKeepsAppState ==
  /\ Mounted(appState, result)
  /\ article' = INITIAL_ARTICLE
  /\ result' = NullResult
  /\ dashboard' = Render(appState, NullResult, dashboard)
  /\ tasks' = Orphan(appState, NullResult, tasks)
  /\ pin' = [ pin EXCEPT !.secretClickCount = 0 ]
  /\ UNCHANGED << appState, history, showHistory, nPub, nReply >>

\* handleReset (the dashboard's reset button)
HandleReset ==
  /\ Mounted(appState, result)
  /\ article' = INITIAL_ARTICLE
  /\ result' = NullResult
  /\ appState' = "EDITOR"
  /\ dashboard' = Render("EDITOR", NullResult, dashboard)
  /\ tasks' = Orphan("EDITOR", NullResult, tasks)
  /\ pin' = [ pin EXCEPT !.secretClickCount = 0 ]
  /\ UNCHANGED << history, showHistory, nPub, nReply >>

\* setShowHistory(true) / setShowHistory(false)
OpenHistory ==
  /\ ~showHistory
  /\ showHistory' = TRUE
  /\ UNCHANGED << appState, article, result, history, dashboard, tasks, nPub, nReply, pin >>

CloseHistory ==
  /\ showHistory
  /\ showHistory' = FALSE
  /\ UNCHANGED << appState, article, result, history, dashboard, tasks, nPub, nReply, pin >>

\* Mutant of HandleLoadHistory: the loaded entry is moved to the front.
HandleLoadHistoryMovesToFront(i) ==
  /\ showHistory
  /\ i \in DOMAIN history
  /\ article' = history[i].article
  /\ result' = history[i].result
  /\ appState' = "RESULT"
  /\ showHistory' = FALSE
  /\ dashboard' = Render("RESULT", history[i].result, dashboard)
  /\ tasks' = Orphan("RESULT", history[i].result, tasks)
  /\ history' = << history[i] >> \o RemoveAt(history, i)
  /\ UNCHANGED << nPub, nReply, pin >>

\* handleLoadHistory(item), item = history[i]
HandleLoadHistory(i) ==
  /\ showHistory
  /\ i \in DOMAIN history
  /\ article' = history[i].article
  /\ result' = history[i].result
  /\ appState' = "RESULT"
  /\ showHistory' = FALSE
  /\ dashboard' = Render("RESULT", history[i].result, dashboard)
  /\ tasks' = Orphan("RESULT", history[i].result, tasks)
  /\ UNCHANGED << history, nPub, nReply, pin >>

\* const context = `[직전 기사] 제목 ... 내용 ... 대중 여론 ... 사회적 파장 ...`
FollowUpContext(a, res) ==
  << a.title, a.content, res.publicSentiment, res.impactSummary >>

\* handleFollowUp (the dashboard's follow-up button)
HandleFollowUp ==
  /\ Mounted(appState, result)
  /\ article' = [ INITIAL_ARTICLE EXCEPT
                    !.category = article.category,
                    !.author = article.author,
                    !.isCrazyMode = article.isCrazyMode,
                    !.isEmergencyMode = article.isEmergencyMode,
                    !.isFakeNews = article.isFakeNews,
                    !.isTimeMachineMode = article.isTimeMachineMode,
                    !.targetYear = article.targetYear,
                    !.previousArticleContext = FollowUpContext(article, result) ]
  /\ result' = NullResult
  /\ appState' = "EDITOR"
  /\ dashboard' = Render("EDITOR", NullResult, dashboard)
  /\ tasks' = Orphan("EDITOR", NullResult, tasks)
  /\ pin' = [ pin EXCEPT !.secretClickCount = 0 ]
  /\ UNCHANGED << history, showHistory, nPub, nReply >>

\* ------------------------------------------------------ secret-mode actions
\* The codes of handlePinSubmit
PinClear == << "0", "0", "0", "0" >>
PinCrazy == << "6", "6", "6", "6" >>
PinEmergency == << "9", "4", "5", "3" >>

\* A code none of handlePinSubmit's branches names
PinWrong == << "1", "2", "3", "4" >>

\* handleSecretClick (the version label in the navigation bar)
HandleSecretClick ==
  /\ LET newCount == pin.secretClickCount + 1
     IN pin' = IF newCount >= 4
               THEN [ pin EXCEPT !.showPinModal = TRUE, !.secretClickCount = 0 ]
               ELSE [ pin EXCEPT !.secretClickCount = newCount ]
  /\ UNCHANGED << appState, article, result, history, showHistory, dashboard,
                  tasks, nPub, nReply >>

\* onChange={(e) => setPinInput(e.target.value)} of the PIN modal's input
SetPinInput(s) ==
  /\ pin.showPinModal
  /\ s # pin.pinInput
  /\ pin' = [ pin EXCEPT !.pinInput = s ]
  /\ UNCHANGED << appState, article, result, history, showHistory, dashboard,
                  tasks, nPub, nReply >>

\* the PIN modal's cancel button: setShowPinModal(false)
CancelPin ==
  /\ pin.showPinModal
  /\ pin' = [ pin EXCEPT !.showPinModal = FALSE ]
  /\ UNCHANGED << appState, article, result, history, showHistory, dashboard,
                  tasks, nPub, nReply >>

\* Mutant of PinEffect: a mode code replaces the other secret mode instead of
\* adding to it.
PinEffectExclusive(pinInput, prev) ==
  IF pinInput = PinClear
  THEN [ prev EXCEPT !.isCrazyMode = FALSE, !.isEmergencyMode = FALSE,
                     !.isFakeNews = FALSE, !.isTimeMachineMode = FALSE ]
  ELSE IF pinInput = PinCrazy
  THEN [ prev EXCEPT !.isCrazyMode = TRUE, !.isEmergencyMode = FALSE ]
  ELSE IF pinInput = PinEmergency
  THEN [ prev EXCEPT !.isEmergencyMode = TRUE, !.isCrazyMode = FALSE ]
  ELSE prev

\* handlePinSubmit: the functional update it hands to setArticle, per code
PinEffect(pinInput, prev) ==
  IF pinInput = PinClear
  THEN [ prev EXCEPT !.isCrazyMode = FALSE, !.isEmergencyMode = FALSE,
                     !.isFakeNews = FALSE, !.isTimeMachineMode = FALSE ]
  ELSE IF pinInput = PinCrazy THEN [ prev EXCEPT !.isCrazyMode = TRUE ]
  ELSE IF pinInput = PinEmergency THEN [ prev EXCEPT !.isEmergencyMode = TRUE ]
  ELSE prev

\* handlePinSubmit (the PIN modal's form)
HandlePinSubmit ==
  /\ pin.showPinModal
  /\ article' = PinEffect(pin.pinInput, article)
  /\ pin' = [ pin EXCEPT !.showPinModal = FALSE, !.pinInput = <<>> ]
  /\ UNCHANGED << appState, result, history, showHistory, dashboard, tasks,
                  nPub, nReply >>

\* ------------------------------------------------------ dashboard actions
\* onClick={() => setSelectedPlatform(platform)}
SetSelectedPlatform(p) ==
  /\ Mounted(appState, result)
  /\ p \in AvailablePlatforms(dashboard.localComments)
  /\ p # dashboard.selectedPlatform
  /\ dashboard' = [ dashboard EXCEPT !.selectedPlatform = p ]
  /\ UNCHANGED << appState, article, result, history, showHistory, tasks, nPub, nReply, pin >>

\* onClick={() => setReplyingTo(idx)}: the button of a displayed comment whose
\* form is not open
SetReplyingTo(idx) ==
  /\ Mounted(appState, result)
  /\ idx \in 1..Len(FilteredComments(dashboard.selectedPlatform, dashboard.localComments))
  /\ dashboard.replyingTo # idx
  /\ dashboard' = [ dashboard EXCEPT !.replyingTo = idx ]
  /\ UNCHANGED << appState, article, result, history, showHistory, tasks, nPub, nReply, pin >>

\* onChange={(e) => setReplyText(e.target.value)} of the open reply form
SetReplyText(s) ==
  /\ Mounted(appState, result)
  /\ FormShown(dashboard, dashboard.replyingTo)
  /\ s # dashboard.replyText
  /\ dashboard' = [ dashboard EXCEPT !.replyText = s ]
  /\ UNCHANGED << appState, article, result, history, showHistory, tasks, nPub, nReply, pin >>

\* the form's cancel button: setReplyingTo(null); setReplyText("")
CancelReply ==
  /\ Mounted(appState, result)
  /\ FormShown(dashboard, dashboard.replyingTo)
  /\ dashboard' = [ dashboard EXCEPT !.replyingTo = Null, !.replyText = <<>> ]
  /\ UNCHANGED << appState, article, result, history, showHistory, tasks, nPub, nReply, pin >>

\* article.author || '기자'
ReporterName(a) == IF TruthyStr(a.author) THEN a.author ELSE <<"r">>

\* Mutant of SubmitReplyEffect: the optimistic append maps over the filtered
\* list, not over the whole conversation.
SubmitReplyOnFiltered(d, targetCommentIdx) ==
  [ d EXCEPT !.replyText = <<>>,
             !.replyingTo = Null,
             !.generatingReplyId = targetCommentIdx,
             !.localComments =
                AppendReplies(FilteredComments(d.selectedPlatform, d.localComments),
                              targetCommentIdx,
                              << MkReply(ReporterName(article), d.replyText, 0) >>) ]

\* Mutant of SubmitReplyEffect: the optimistic append is missing.
SubmitReplyNoAppend(d, targetCommentIdx) ==
  [ d EXCEPT !.replyText = <<>>,
             !.replyingTo = Null,
             !.generatingReplyId = targetCommentIdx ]

\* handleSubmitReply(idx, comment) up to its await, called from the open form
\* of displayed position idx with comment = filteredComments[idx]:
\* the optimistic append, then generateReplyReaction runs up to the first
\* generateContent call inside retryRequest.
SubmitReplyEffect(d, targetCommentIdx) ==
  [ d EXCEPT !.replyText = <<>>,
             !.replyingTo = Null,
             !.generatingReplyId = targetCommentIdx,
             !.localComments =
                AppendReplies(d.localComments, targetCommentIdx,
                              << MkReply(ReporterName(article), d.replyText, 0) >>) ]

\* Mutant of HandleSubmitReply: the reply is pushed onto the comment's own
\* replies array, which the displayed result and its history entry share.
HandleSubmitReplyInPlace(idx) ==
  /\ Mounted(appState, result)
  /\ FormShown(dashboard, idx)
  /\ Trim(dashboard.replyText) # <<>>
  /\ dashboard' = SubmitReplyEffect(dashboard, idx)
  /\ tasks' = Append(tasks,
       NewTask("reply", article, idx,
               FilteredComments(dashboard.selectedPlatform,
                                dashboard.localComments)[idx],
               dashboard.replyText))
  /\ nReply' = nReply + 1
  /\ result' = [ result EXCEPT !.comments = SubmitReplyEffect(dashboard, idx).localComments ]
  /\ history' = [ i \in DOMAIN history |->
                    IF history[i].result.oid = result.oid
                    THEN [ history[i] EXCEPT !.result.comments =
                             SubmitReplyEffect(dashboard, idx).localComments ]
                    ELSE history[i] ]
  /\ UNCHANGED << appState, article, showHistory, nPub, pin >>

HandleSubmitReply(idx) ==
  /\ Mounted(appState, result)
  /\ FormShown(dashboard, idx)
  /\ IF Trim(dashboard.replyText) = <<>>
     THEN UNCHANGED << dashboard, tasks, nReply >>
     ELSE /\ dashboard' = SubmitReplyEffect(dashboard, idx)
          /\ tasks' = Append(tasks,
               NewTask("reply", article, idx,
                       FilteredComments(dashboard.selectedPlatform,
                                        dashboard.localComments)[idx],
                       dashboard.replyText))
          /\ nReply' = nReply + 1
  /\ UNCHANGED << appState, article, result, history, showHistory, nPub, pin >>

\* ------------------------------------------------- retryRequest, stepwise
\* Mutant of CallRetries: a rate-limited attempt already stores a placeholder
\* result.
CallRetriesStoresResult(k, o) ==
  /\ k \in DOMAIN tasks
  /\ tasks[k].phase = "call"
  /\ o \in CallOutcomes(tasks[k].kind)
  /\ RetryDecision(tasks[k].retries, o) = "retry"
  /\ tasks' = [ tasks EXCEPT ![k] =
                  [ @ EXCEPT !.phase = "wait",
                             !.waits = Append(@, tasks[k].delay),
                             !.outs = Append(@, OutcomeClass(o)) ] ]
  /\ result' = IF tasks[k].kind = "publish"
               THEN Placeholder(Len(history) + 1) ELSE result
  /\ UNCHANGED << appState, article, history, showHistory, dashboard, nPub, nReply, pin >>

\* The awaited requestFn() of pending invocation k rejects with a failure that
\* retryRequest retries: it arms setTimeout(resolve, delay).
CallRetries(k, o) ==
  /\ k \in DOMAIN tasks
  /\ tasks[k].phase = "call"
  /\ o \in CallOutcomes(tasks[k].kind)
  /\ RetryDecision(tasks[k].retries, o) = "retry"
  /\ tasks' = [ tasks EXCEPT ![k] =
                  [ @ EXCEPT !.phase = "wait",
                             !.waits = Append(@, tasks[k].delay),
                             !.outs = Append(@, OutcomeClass(o)) ] ]
  /\ UNCHANGED << appState, article, result, history, showHistory, dashboard, nPub, nReply, pin >>

\* Mutant of TimerFires: the delay grows by the base interval, not by doubling.
TimerFiresLinear(k) ==
  /\ k \in DOMAIN tasks
  /\ tasks[k].phase = "wait"
  /\ tasks' = [ tasks EXCEPT ![k] =
                  [ @ EXCEPT !.phase = "call",
                             !.retries = @ - 1,
                             !.delay = @ + BaseDelay,
                             !.calls = @ + 1 ] ]
  /\ UNCHANGED << appState, article, result, history, showHistory, dashboard, nPub, nReply, pin >>

\* The timer of pending invocation k fires:
\* return retryRequest(requestFn, retries - 1, delay * 2), which calls requestFn().
TimerFires(k) ==
  /\ k \in DOMAIN tasks
  /\ tasks[k].phase = "wait"
  /\ tasks' = [ tasks EXCEPT ![k] =
                  [ @ EXCEPT !.phase = "call",
                             !.retries = @ - 1,
                             !.delay = @ * 2,
                             !.calls = @ + 1 ] ]
  /\ UNCHANGED << appState, article, result, history, showHistory, dashboard, nPub, nReply, pin >>

\* Mutant of PublishContinuation: the history entry stores the live article.
PublishContinuationLiveArticle(p, art) ==
  IF ~p.rejected
  THEN [ result |-> p.value,
         history |-> << [ article |-> article, result |-> p.value ] >> \o history,
         appState |-> "RESULT" ]
  ELSE [ result |-> result, history |-> history, appState |-> "EDITOR" ]

\* ------------------------------------------- handlePublish, after its await
\* Mutant of PublishContinuation: setAppState(AppState.RESULT) is missing.
PublishContinuationStaysSimulating(p, art) ==
  IF ~p.rejected
  THEN [ result |-> p.value,
         history |-> << [ article |-> art, result |-> p.value ] >> \o history,
         appState |-> appState ]
  ELSE [ result |-> result, history |-> history, appState |-> "EDITOR" ]

\* The rest of handlePublish once analyzeArticle's promise p has settled;
\* art is the article its closure captured.
PublishContinuation(p, art) ==
  IF ~p.rejected
  THEN [ result |-> p.value,
         history |-> << [ article |-> art, result |-> p.value ] >> \o history,
         appState |-> "RESULT" ]
  ELSE [ result |-> result, history |-> history, appState |-> "EDITOR" ]

\* The generateContent call of pending handlePublish k settles for good: the
\* continuations of retryRequest, analyzeArticle and handlePublish run.
PublishSettles(k, o) ==
  /\ k \in DOMAIN tasks
  /\ tasks[k].kind = "publish"
  /\ tasks[k].phase = "call"
  /\ o \in CallOutcomes("publish") \cup StockOutcomes
  /\ LET t == tasks[k]
         decision == RetryDecision(t.retries, o)
         p == AnalyzeArticleSettle(decision, o, Len(history) + 1)
         c == PublishContinuation(p, t.art)
     IN /\ decision # "retry"
        /\ result' = c.result
        /\ history' = c.history
        /\ appState' = c.appState
        /\ dashboard' = Render(c.appState, c.result, dashboard)
        /\ tasks' = Orphan(c.appState, c.result, RemoveAt(tasks, k))
  /\ UNCHANGED << article, showHistory, nPub, nReply, pin >>

\* Mutant of ReplyContinuation: the generated replies are put in front.
ReplyContinuationPrepend(d, p, targetCommentIdx) ==
  [ d EXCEPT !.localComments =
               IF ~p.rejected /\ Len(p.value) > 0
               THEN [ i \in DOMAIN d.localComments |->
                        IF i = targetCommentIdx
                        THEN [ d.localComments[i] EXCEPT
                                 !.replies = p.value \o d.localComments[i].replies ]
                        ELSE d.localComments[i] ]
               ELSE d.localComments,
             !.generatingReplyId = Null ]

\* Mutant of ReplyContinuation: there is no finally block; the indicator is
\* cleared only after replies were appended.
ReplyContinuationNoFinally(d, p, targetCommentIdx) ==
  IF ~p.rejected /\ Len(p.value) > 0
  THEN [ d EXCEPT !.localComments = AppendReplies(@, targetCommentIdx, p.value),
                  !.generatingReplyId = Null ]
  ELSE d

\* ---------------------------------------- handleSubmitReply, after its await
\* The rest of handleSubmitReply once generateReplyReaction's promise p has
\* settled: append the generated replies if any, and in any case (finally)
\* setGeneratingReplyId(null).
ReplyContinuation(d, p, targetCommentIdx) ==
  [ d EXCEPT !.localComments =
               IF ~p.rejected /\ Len(p.value) > 0
               THEN AppendReplies(@, targetCommentIdx, p.value)
               ELSE @,
             !.generatingReplyId = Null ]

\* The generateContent call of pending handleSubmitReply k settles for good.
ReplySettles(k, o) ==
  /\ k \in DOMAIN tasks
  /\ tasks[k].kind = "reply"
  /\ tasks[k].phase = "call"
  /\ o \in CallOutcomes("reply")
  /\ LET t == tasks[k]
         decision == RetryDecision(t.retries, o)
         p == GenerateReplyReactionSettle(decision, o)
     IN /\ decision # "retry"
        /\ dashboard' = IF t.live
                        THEN ReplyContinuation(dashboard, p, t.idx)
                        ELSE dashboard
        /\ tasks' = RemoveAt(tasks, k)
  /\ UNCHANGED << appState, article, result, history, showHistory, nPub, nReply, pin >>

\* ------------------------------------------------------------ the system
\* One step of the program: a user event, a settled call or a timer.
\* The bounds stop new submissions; nothing is observed in settled.
Next ==
  \/ nPub < MaxPublish /\ HandlePublish /\ UNCHANGED settled
  \/ HandleReset /\ UNCHANGED settled
  \/ OpenHistory /\ UNCHANGED settled
  \/ CloseHistory /\ UNCHANGED settled
  \/ \E i \in DOMAIN history : HandleLoadHistory(i) /\ UNCHANGED settled
  \/ \E p \in AvailablePlatforms(dashboard.localComments) :
       SetSelectedPlatform(p) /\ UNCHANGED settled
  \/ \E idx \in DOMAIN dashboard.localComments : SetReplyingTo(idx) /\ UNCHANGED settled
  \/ \E s \in ReplyTexts : SetReplyText(s) /\ UNCHANGED settled
  \/ CancelReply /\ UNCHANGED settled
  \/ \E idx \in DOMAIN dashboard.localComments :
       /\ (Trim(dashboard.replyText) # <<>> => nReply < MaxReply)
       /\ HandleSubmitReply(idx)
       /\ UNCHANGED settled
  \/ \E k \in DOMAIN tasks : \E o \in CallOutcomes(tasks[k].kind) : CallRetries(k, o) /\ UNCHANGED settled
  \/ \E k \in DOMAIN tasks : TimerFires(k) /\ UNCHANGED settled
  \/ \E k \in DOMAIN tasks : \E o \in CallOutcomes(tasks[k].kind) : PublishSettles(k, o) /\ UNCHANGED settled
  \/ \E k \in DOMAIN tasks : \E o \in CallOutcomes(tasks[k].kind) : ReplySettles(k, o) /\ UNCHANGED settled

Spec == Init /\ [][Next]_vars

\* ------------------------------------------- the service layer, observed
\* What a settlement looked like: the invocation t that settled, the outcome o
\* of its last call and the promise its service function settled with.
Observe(t, o, promise) ==
  [ kind |-> t.kind, idx |-> t.idx, live |-> t.live,
    outs |-> Append(t.outs, OutcomeClass(o)), final |-> o,
    calls |-> t.calls, waits |-> t.waits,
    decision |-> RetryDecision(t.retries, o), promise |-> promise,
    text |-> t.text ]

\* The steps of a pending invocation, with settled recording a settlement
\* and nothing after any other step.
SvcCallRetries(k, o) == CallRetries(k, o) /\ settled' = NoSettle

SvcTimerFires(k) == TimerFires(k) /\ settled' = NoSettle

SvcPublishSettles(k, o) ==
  /\ PublishSettles(k, o)
  /\ settled' = Observe(tasks[k], o,
       AnalyzeArticleSettle(RetryDecision(tasks[k].retries, o), o, Len(history) + 1))

SvcReplySettles(k, o) ==
  /\ ReplySettles(k, o)
  /\ settled' = Observe(tasks[k], o,
       GenerateReplyReactionSettle(RetryDecision(tasks[k].retries, o), o))

\* Some pending invocation takes a step: a call settles or a timer fires
SvcTaskStep ==
  \E k \in DOMAIN tasks :
    \/ SvcTimerFires(k)
    \/ \E o \in CallOutcomes(tasks[k].kind) :
         SvcCallRetries(k, o) \/ SvcPublishSettles(k, o) \/ SvcReplySettles(k, o)

\* The steps that start, advance and settle the two service functions
\* (analyzeArticle through handlePublish, generateReplyReaction through
\* handleSubmitReply).
SvcNext ==
  \/ \E t \in Titles : EditArticle(t) /\ settled' = NoSettle
  \/ nPub < SvcMaxPublish /\ HandlePublish /\ settled' = NoSettle
  \/ HandleReset /\ settled' = NoSettle
  \/ \E idx \in DOMAIN dashboard.localComments : SetReplyingTo(idx) /\ settled' = NoSettle
  \/ \E s \in ReplyTexts : SetReplyText(s) /\ settled' = NoSettle
  \/ \E idx \in DOMAIN dashboard.localComments :
       /\ (Trim(dashboard.replyText) # <<>> => nReply < SvcMaxReply)
       /\ HandleSubmitReply(idx)
       /\ settled' = NoSettle
  \/ \E k \in DOMAIN tasks : \E o \in CallOutcomes(tasks[k].kind) : SvcCallRetries(k, o)
  \/ \E k \in DOMAIN tasks : SvcTimerFires(k)
  \/ \E k \in DOMAIN tasks : \E o \in CallOutcomes(tasks[k].kind) : SvcPublishSettles(k, o)
  \/ \E k \in DOMAIN tasks : \E o \in CallOutcomes(tasks[k].kind) : SvcReplySettles(k, o)

SvcSpec == Init /\ [][SvcNext]_vars

\* The event loop delivers every settled call and every expired timer: a
\* pending invocation is not left waiting forever.
SvcFairSpec == SvcSpec /\ WF_vars(SvcTaskStep)

\* --------------------------------------------- the requests, by their input
\* The article options vary, and each submission and each reply composes its
\* request from them; calls settle without retries.
ReqNext ==
  \/ \E e, c, f, tm \in BOOLEAN, y \in TargetYears :
       nPub < ReqMaxPublish /\ SetArticleOptions(e, c, f, tm, y) /\ UNCHANGED settled
  \/ nPub < ReqMaxPublish /\ HandlePublish /\ UNCHANGED settled
  \/ HandleReset /\ UNCHANGED settled
  \/ \E idx \in DOMAIN dashboard.localComments : SetReplyingTo(idx) /\ UNCHANGED settled
  \/ \E s \in ReplyTexts : SetReplyText(s) /\ UNCHANGED settled
  \/ \E idx \in DOMAIN dashboard.localComments :
       /\ (Trim(dashboard.replyText) # <<>> => nReply < ReqMaxReply)
       /\ HandleSubmitReply(idx)
       /\ UNCHANGED settled
  \/ \E k \in DOMAIN tasks : \E o \in CallOutcomes(tasks[k].kind) : PublishSettles(k, o) /\ UNCHANGED settled
  \/ \E k \in DOMAIN tasks : \E o \in CallOutcomes(tasks[k].kind) : ReplySettles(k, o) /\ UNCHANGED settled

ReqSpec == Init /\ [][ReqNext]_vars

\* ------------------------------------- results, history and replies, observed
\* Two submissions, so that the history holds a result to load while a
\* submission or a reply sub-flow is pending; settled records each settlement.
HistNext ==
  \/ nPub < HistMaxPublish /\ HandlePublish /\ settled' = NoSettle
  \/ HandleReset /\ settled' = NoSettle
  \/ OpenHistory /\ settled' = NoSettle
  \/ \E i \in DOMAIN history : HandleLoadHistory(i) /\ settled' = NoSettle
  \/ \E idx \in DOMAIN dashboard.localComments : SetReplyingTo(idx) /\ settled' = NoSettle
  \/ \E s \in ReplyTexts : SetReplyText(s) /\ settled' = NoSettle
  \/ \E idx \in DOMAIN dashboard.localComments :
       /\ (Trim(dashboard.replyText) # <<>> => nReply < HistMaxReply)
       /\ HandleSubmitReply(idx)
       /\ settled' = NoSettle
  \/ \E k \in DOMAIN tasks : \E o \in CallOutcomes(tasks[k].kind) : SvcCallRetries(k, o)
  \/ \E k \in DOMAIN tasks : SvcTimerFires(k)
  \/ \E k \in DOMAIN tasks : \E o \in CallOutcomes(tasks[k].kind) : SvcPublishSettles(k, o)
  \/ \E k \in DOMAIN tasks : \E o \in CallOutcomes(tasks[k].kind) : SvcReplySettles(k, o)

HistSpec == Init /\ [][HistNext]_vars

\* ---------------------------------------------------- the App component
\* Every handler of App (publish, reset, follow-up, history, secret mode) with
\* title edits and one reply flow of the dashboard; calls settle without
\* retries. To keep the state space small the title is edited once the
\* history holds an entry, the secret label is clicked once a submission was
\* started and while the PIN modal is closed, the modal is cancelled with an
\* empty input, two of the codes are typed, and the reply goes to the last
\* comment.
AppNext ==
  \/ \E t \in Titles :
       nPub < AppMaxPublish /\ history # <<>> /\ EditArticle(t) /\ UNCHANGED settled
  \/ nPub < AppMaxPublish /\ HandlePublish /\ UNCHANGED settled
  \/ HandleReset /\ UNCHANGED settled
  \/ HandleFollowUp /\ UNCHANGED settled
  \/ OpenHistory /\ UNCHANGED settled
  \/ \E i \in DOMAIN history : HandleLoadHistory(i) /\ UNCHANGED settled
  \/ nPub >= 1 /\ ~pin.showPinModal /\ HandleSecretClick /\ UNCHANGED settled
  \/ \E s \in { PinCrazy, PinClear } : SetPinInput(s) /\ UNCHANGED settled
  \/ pin.pinInput = <<>> /\ CancelPin /\ UNCHANGED settled
  \/ HandlePinSubmit /\ UNCHANGED settled
  \/ \E idx \in DOMAIN dashboard.localComments :
       idx = Len(GeneratedComments) /\ SetReplyingTo(idx) /\ UNCHANGED settled
  \/ \E s \in ReplyTexts : Trim(s) # <<>> /\ SetReplyText(s) /\ UNCHANGED settled
  \/ \E idx \in DOMAIN dashboard.localComments :
       /\ (Trim(dashboard.replyText) # <<>> => nReply < AppMaxReply)
       /\ HandleSubmitReply(idx)
       /\ UNCHANGED settled
  \/ \E k \in DOMAIN tasks : \E o \in CallOutcomes(tasks[k].kind) : PublishSettles(k, o) /\ UNCHANGED settled
  \/ \E k \in DOMAIN tasks : \E o \in CallOutcomes(tasks[k].kind) : ReplySettles(k, o) /\ UNCHANGED settled

AppSpec == Init /\ [][AppNext]_vars

\* ------------------------------------------------------------ follow-ups
\* An article is written, flagged and submitted, and a follow-up (or a new
\* article after reset) is written and submitted in turn. The switches and
\* the year are set on the first article, the year to the stored current
\* year or to 1985.
FollowNext ==
  \/ \E t \in Titles : nPub < FollowMaxPublish /\ EditArticle(t) /\ UNCHANGED settled
  \/ \E cat \in Categories, co \in Contents :
       nPub < FollowMaxPublish /\ SetArticleText(cat, co) /\ UNCHANGED settled
  \/ \E e, c, f, tm \in BOOLEAN,
        y \in { INITIAL_ARTICLE.targetYear, << "1", "9", "8", "5" >> } :
       nPub = 0 /\ SetArticleOptions(e, c, f, tm, y) /\ UNCHANGED settled
  \/ nPub < FollowMaxPublish /\ HandlePublish /\ UNCHANGED settled
  \/ HandleReset /\ UNCHANGED settled
  \/ HandleFollowUp /\ UNCHANGED settled
  \/ \E k \in DOMAIN tasks : \E o \in CallOutcomes(tasks[k].kind) : PublishSettles(k, o) /\ UNCHANGED settled

FollowSpec == Init /\ [][FollowNext]_vars

\* ------------------------------------------------------------ PIN entry
\* The article is written and flagged in the editor, the secret button is
\* clicked, and codes are typed into the PIN modal and submitted or the
\* modal is cancelled. The modal covers the editor while it is shown, and the
\* two secret modes are left to the codes.
PinNext ==
  \/ \E t \in Titles : ~pin.showPinModal /\ EditArticle(t) /\ UNCHANGED settled
  \/ \E cat \in Categories, co \in Contents :
       ~pin.showPinModal /\ SetArticleText(cat, co) /\ UNCHANGED settled
  \/ \E f, tm \in BOOLEAN,
        y \in { INITIAL_ARTICLE.targetYear, << "1", "9", "8", "5" >> } :
       /\ ~pin.showPinModal
       /\ SetArticleOptions(article.isEmergencyMode, article.isCrazyMode, f, tm, y)
       /\ UNCHANGED settled
  \/ ~pin.showPinModal /\ HandleSecretClick /\ UNCHANGED settled
  \/ \E s \in { <<>>, PinClear, PinCrazy, PinEmergency, PinWrong } :
       SetPinInput(s) /\ UNCHANGED settled
  \/ CancelPin /\ UNCHANGED settled
  \/ HandlePinSubmit /\ UNCHANGED settled

PinSpec == Init /\ [][PinNext]_vars

\* --------------------------------------------------------- market panel
\* A submission settles with any response, among them responses that decode
\* to a result with a StockAnalysis, and the dashboard shows the result.
StockNext ==
  \/ \E t \in Titles : EditArticle(t) /\ UNCHANGED settled
  \/ nPub < StockMaxPublish /\ HandlePublish /\ UNCHANGED settled
  \/ HandleReset /\ UNCHANGED settled
  \/ \E p \in AvailablePlatforms(dashboard.localComments) :
       SetSelectedPlatform(p) /\ UNCHANGED settled
  \/ \E k \in DOMAIN tasks :
       \E o \in CallOutcomes("publish") \cup StockOutcomes :
         PublishSettles(k, o) /\ UNCHANGED settled

StockSpec == Init /\ [][StockNext]_vars

\* =================================================================== claims
\* The four failure categories of a service call, read off a settlement s:
\* its last call was rejected (rate limit past the retry budget, or any other
\* transport failure), or answered with absent text, or with malformed text.
CallFailed(s) ==
  \/ ~s.final.ok
  \/ ~s.final.text.defined
  \/ s.final.text.empty
  \/ ~s.final.text.wellFormed

\* C1 (as claimed): when the primary simulation fails, the submission ends
\* with the app back in EDITOR (never RESULT).
C1_FailedPublishReturnsToEditor ==
  (settled.kind = "publish" /\ CallFailed(settled)) => appState = "EDITOR"

\* C2 (as claimed): a failed primary simulation leaves the result state null
\* and the history exactly as it was.
C2_FailedPublishCachesNothing ==
  [][ (settled'.kind = "publish" /\ CallFailed(settled'))
        => (result' = NullResult /\ history' = history) ]_vars

\* C3: generateReplyReaction never rejects, and whenever its underlying call
\* failed (any of the four categories) it resolves with the empty sequence.
C3_ReplyNeverFailsOutward ==
  settled.kind = "reply" =>
    /\ ~settled.promise.rejected
    /\ (CallFailed(settled) => settled.promise.value = <<>>)

\* C3 witness: a reply sub-flow whose call was rejected with a non-rate-limit
\* failure has settled, resolved with the empty sequence.
C3_Witness ==
  /\ settled.kind = "reply"
  /\ ~settled.final.ok
  /\ settled.outs[Len(settled.outs)] = "other"
  /\ settled.promise = Fulfilled(<<>>)

\* Every recorded call outcome is a rate-limit failure
AllRate(outs) == \A i \in DOMAIN outs : outs[i] = "rate"

\* The waits before retries 1..n: base * 2^(k-1) with base = 2000 ms
DoublingWaits(n) == [ k \in 1..n |-> 2000 * 2^(k - 1) ]

\* C4 (safety part): no invocation of retryRequest calls its work more than
\* 4 times, and one whose work failed with a rate-limit signal every time
\* settles after exactly 4 calls, having waited 2000, 4000 and 8000 ms, by
\* throwing the failure.
C4_Budget ==
  /\ \A k \in DOMAIN tasks : tasks[k].calls <= 4
  /\ settled.kind # "none" => settled.calls <= 4
  /\ (settled.kind # "none" /\ AllRate(settled.outs)) =>
       /\ settled.calls = 4
       /\ settled.waits = << 2000, 4000, 8000 >>
       /\ settled.decision = "throw"

\* C4: the budget above holds in every state, and every pending invocation
\* settles (the retry schedule terminates).
C4_AlwaysRateLimited ==
  /\ []C4_Budget
  /\ (tasks # <<>>) ~> (tasks = <<>>)

\* C4 witness: an invocation whose four calls all failed with a rate-limit
\* signal has settled.
C4_Witness ==
  /\ settled.kind = "publish"
  /\ settled.outs = << "rate", "rate", "rate", "rate" >>
  /\ settled.decision = "throw"

\* The work failed with a rate-limit signal exactly n times, then succeeded
RateThenOk(outs, n) ==
  /\ Len(outs) = n + 1
  /\ \A i \in 1..n : outs[i] = "rate"
  /\ outs[n + 1] = "ok"

\* C5: work that fails with a rate-limit signal exactly n times (0 <= n <= 3)
\* and then succeeds: retryRequest returns after exactly n + 1 calls, having
\* waited base * 2^(k-1) before the k-th retry, and the service function
\* decodes that last response.
C5_RetryThenSuccess ==
  \A n \in 0..3 :
    (settled.kind # "none" /\ RateThenOk(settled.outs, n)) =>
      /\ settled.decision = "return"
      /\ settled.calls = n + 1
      /\ settled.waits = DoublingWaits(n)
      /\ ~settled.promise.rejected
      /\ (settled.kind = "reply" /\ ~CallFailed(settled)) =>
            settled.promise.value = settled.final.text.value
      /\ (settled.kind = "publish" /\ ~CallFailed(settled)) =>
            settled.promise.value.comments = settled.final.text.value.comments

\* C5 witness: two rate-limit failures, then a decodable response
C5_Witness ==
  /\ settled.kind = "reply"
  /\ settled.outs = << "rate", "rate", "ok" >>
  /\ settled.waits = << 2000, 4000 >>
  /\ settled.promise.value # <<>>

\* C6: a failure that carries no rate-limit signal is never retried: no
\* pending invocation has one behind it, and the settlement it causes throws
\* at once, with no wait and no call after it, whatever budget remains.
C6_OtherFailureNotRetried ==
  /\ \A k \in DOMAIN tasks : AllRate(tasks[k].outs)
  /\ settled.kind # "none" =>
       /\ \A i \in 1..(Len(settled.outs) - 1) : settled.outs[i] = "rate"
       /\ settled.outs[Len(settled.outs)] = "other" =>
            /\ settled.decision = "throw"
            /\ settled.calls = Len(settled.outs)
            /\ Len(settled.waits) = Len(settled.outs) - 1

\* C6 witness: a non-rate-limit failure after one rate-limit retry, with two
\* retries of the budget left, has been thrown.
C6_Witness ==
  /\ settled.kind # "none"
  /\ settled.outs = << "rate", "other" >>
  /\ settled.decision = "throw"
  /\ settled.calls = 2

\* ------------------------------------------------ reply flow, by its steps
\* Pending reply invocation k belongs to the mounted dashboard
LiveReply(k) == tasks[k].kind = "reply" /\ tasks[k].live

\* This step is an accepted reply submission addressed to position i
ReplySubmitted(i) ==
  /\ Len(tasks') = Len(tasks) + 1
  /\ tasks'[Len(tasks')].kind = "reply"
  /\ tasks'[Len(tasks')].idx = i

\* This step settles a sub-flow of the mounted dashboard addressed to position i
ReplySettled(i) ==
  \E k \in DOMAIN tasks :
    /\ LiveReply(k)
    /\ tasks[k].idx = i
    /\ tasks' = RemoveAt(tasks, k)

IsPrefix(a, b) == Len(a) <= Len(b) /\ SubSeq(b, 1, Len(a)) = a

\* C7 (as claimed): at most one reply sub-flow call is pending per comment
\* thread.
C7_OneCallPerThread ==
  \A j, k \in DOMAIN tasks :
    (j # k /\ LiveReply(j) /\ LiveReply(k)) => tasks[j].idx # tasks[k].idx

\* C8 (as claimed): the position a pending sub-flow appends to holds the
\* comment the user replied to (the comment handed to handleSubmitReply).
C8_ReplyLandsOnTarget ==
  \A k \in DOMAIN tasks :
    LiveReply(k) =>
      /\ tasks[k].idx \in DOMAIN dashboard.localComments
      /\ dashboard.localComments[tasks[k].idx].username = tasks[k].comment.username

\* Between this state and the next only the replies of comment i change
OnlyRepliesOf(i) ==
  /\ DOMAIN dashboard'.localComments = DOMAIN dashboard.localComments
  /\ \A j \in DOMAIN dashboard.localComments :
       IF j = i
       THEN [ dashboard'.localComments[j] EXCEPT
                !.replies = dashboard.localComments[j].replies ]
              = dashboard.localComments[j]
       ELSE dashboard'.localComments[j] = dashboard.localComments[j]

\* C9: both steps of a reply flow addressed to position i (the submission with
\* its optimistic append, and the settlement of the sub-flow) leave every
\* other comment as it was and change nothing of comment i but its replies.
C9_ReplyChangesOnlyItsComment ==
  [][ \A i \in DOMAIN GeneratedComments :
        (ReplySubmitted(i) \/ ReplySettled(i)) => OnlyRepliesOf(i) ]_vars

\* C9 witness: a reply flow on one comment has run to its end, with generated
\* replies appended, and another comment is as it was generated.
C9_Witness ==
  /\ tasks = <<>>
  /\ nReply = 1
  /\ \E i, j \in DOMAIN dashboard.localComments :
       /\ i # j
       /\ Len(dashboard.localComments[i].replies) = Len(GeneratedComments[i].replies) + 3
       /\ dashboard.localComments[j] = GeneratedComments[j]

\* The reply the user is about to submit
DraftReply ==
  [ username |-> IF article.author # <<>> THEN article.author ELSE <<"r">>,
    content |-> dashboard.replyText, likes |-> 0 ]

\* C10: an accepted submission leaves the user's reply at the end of the
\* target position's replies in the very state in which the first generation
\* call is pending, and the settlement of that sub-flow, whatever its outcome,
\* keeps every reply that was there.
C10_OptimisticAppend ==
  [][ \A i \in DOMAIN GeneratedComments :
        /\ ReplySubmitted(i) =>
             /\ dashboard'.localComments[i].replies
                  = Append(dashboard.localComments[i].replies, DraftReply)
             /\ tasks'[Len(tasks')].phase = "call"
             /\ tasks'[Len(tasks')].calls = 1
        /\ ReplySettled(i) =>
             (i \in DOMAIN dashboard.localComments =>
                IsPrefix(dashboard.localComments[i].replies,
                         dashboard'.localComments[i].replies)) ]_vars

\* C10 witness: the first call of a sub-flow is pending and the user's reply
\* is the last reply of the position it was addressed to.
C10_Witness ==
  \E k \in DOMAIN tasks :
    /\ LiveReply(k)
    /\ tasks[k].phase = "call"
    /\ tasks[k].calls = 1
    /\ LET rs == dashboard.localComments[tasks[k].idx].replies
       IN rs # <<>> /\ rs[Len(rs)] = MkReply(tasks[k].art.author, tasks[k].text, 0)

\* --------------------------------------- reply flow, by what the call returned
\* The reply that the submission of pending invocation t appended
UserReplyOf(t) ==
  MkReply(IF t.art.author # <<>> THEN t.art.author ELSE <<"r">>, t.text, 0)

\* This step settles pending reply invocation k of the mounted dashboard
SettlesLiveReply(k) ==
  /\ k \in DOMAIN tasks
  /\ LiveReply(k)
  /\ tasks' = RemoveAt(tasks, k)
  /\ settled'.kind = "reply"

\* Reply r occurs in sequence rs
HasReply(rs, r) == \E m \in DOMAIN rs : rs[m] = r

\* C11: when a reply sub-flow of the displayed conversation settles, the
\* replies it returned (none, when it returned the empty sequence) are
\* appended, in the order returned, at the end of the reply sequence of the
\* position it was addressed to, and when it returned any, that sequence
\* holds the user reply that triggered the call, so that they stand after it.
\* The conversation is the one the reply was submitted in: no other result is
\* loaded while the sub-flow is pending.
C11_GeneratedRepliesAfterUserReply ==
  [][ \A k \in DOMAIN tasks :
        SettlesLiveReply(k) =>
          LET i == tasks[k].idx
              rs == settled'.promise.value
          IN IF rs = <<>>
             THEN dashboard'.localComments = dashboard.localComments
             ELSE /\ i \in DOMAIN dashboard.localComments
                  /\ dashboard'.localComments[i].replies
                       = dashboard.localComments[i].replies \o rs
                  /\ HasReply(dashboard.localComments[i].replies,
                              UserReplyOf(tasks[k])) ]_vars

\* C11 witness: a sub-flow returned two replies, and the position it was
\* addressed to holds the generated comment's replies, the user reply and
\* the two replies, in that order.
C11_Witness ==
  /\ settled.kind = "reply"
  /\ settled.live
  /\ Len(settled.promise.value) = 2
  /\ dashboard.localComments[settled.idx].replies
       = (GeneratedComments[settled.idx].replies
            \o << MkReply(article.author, settled.text, 0) >>)
            \o settled.promise.value

\* C12: when a reply sub-flow of the displayed conversation fails (any of the
\* four categories), its settlement appends and removes nothing, the reply
\* sequence of the position it was addressed to starts with the sequence the
\* target comment had at submission followed by the user's reply, is exactly
\* that when no other reply has been submitted, and the indicator is off.
C12_FailureLeavesUserReply ==
  [][ \A k \in DOMAIN tasks :
        (SettlesLiveReply(k) /\ CallFailed(settled')) =>
          LET i == tasks[k].idx
              expected == Append(tasks[k].comment.replies, UserReplyOf(tasks[k]))
          IN /\ dashboard'.localComments = dashboard.localComments
             /\ i \in DOMAIN dashboard'.localComments
             /\ IsPrefix(expected, dashboard'.localComments[i].replies)
             /\ nReply = 1 => dashboard'.localComments[i].replies = expected
             /\ dashboard'.generatingReplyId = Null ]_vars

\* C12 witness: a sub-flow has failed; the position it was addressed to holds
\* the generated comment's replies and the user's reply, and no indicator is on.
C12_Witness ==
  /\ settled.kind = "reply"
  /\ settled.live
  /\ CallFailed(settled)
  /\ dashboard.localComments[settled.idx].replies
       = Append(GeneratedComments[settled.idx].replies,
                MkReply(article.author, settled.text, 0))
  /\ dashboard.generatingReplyId = Null

\* C13: the indicator of a position never stays on forever: whenever it is
\* on, it is off at some later time, given that every call settles and every
\* timer fires.
C13_IndicatorEventuallyCleared ==
  \A i \in DOMAIN GeneratedComments :
    (dashboard.generatingReplyId = i) ~> (dashboard.generatingReplyId # i)

\* C13 witness: the indicator is off after a sub-flow that used up its retry
\* budget on rate-limit failures.
C13_Witness ==
  /\ settled.kind = "reply"
  /\ settled.live
  /\ settled.outs = << "rate", "rate", "rate", "rate" >>
  /\ dashboard.generatingReplyId = Null
  /\ Mounted(appState, result)

\* C14 (as claimed): the indicator of each position is on exactly while a
\* sub-flow addressed to that position is pending, whatever is submitted to
\* or settles for other positions.
C14_IndicatorPerThread ==
  \A i \in DOMAIN GeneratedComments :
    (dashboard.generatingReplyId = i)
      <=> (\E k \in DOMAIN tasks : LiveReply(k) /\ tasks[k].idx = i)

\* C15 (as claimed): a primary simulation whose response has no text ends
\* for its caller in a failure, and in an outcome other than the one a
\* response with malformed text ends in.
C15_AbsentAndMalformedDistinguished ==
  (settled.kind = "publish" /\ settled.final.ok /\ ~settled.final.text.defined) =>
    /\ settled.promise
         # AnalyzeArticleSettle("return", Resolved(GarbageText), Len(history))
    /\ settled.promise.rejected

\* ------------------------------------------------ requests, by their input
\* Pending invocation k is a submission (analyzeArticle has composed its prompt)
IsPublish(k) == tasks[k].kind = "publish"

\* The active mode flags of article a in the order emergency, crazy, fakeNews
ActiveModes(a) ==
  SelectSeq(<< "emergency", "crazy", "fakeNews" >>,
            LAMBDA f : \/ f = "emergency" /\ a.isEmergencyMode
                       \/ f = "crazy" /\ a.isCrazyMode
                       \/ f = "fakeNews" /\ a.isFakeNews)

\* The modes of a list of instruction blocks, in its order
ModesOf(blocks) == [ i \in DOMAIN blocks |-> blocks[i].mode ]

\* C16: for every article with at least one of emergency, crazy, fakeNews
\* active, the prompt holds exactly one instruction block per active flag, in
\* the order emergency, crazy, fakeNews (so the flag set fixes the list).
C16_OneBlockPerActiveMode ==
  \A k \in DOMAIN tasks :
    (IsPublish(k) /\ ActiveModes(tasks[k].art) # <<>>) =>
      /\ Len(tasks[k].prompt.modes) = Len(ActiveModes(tasks[k].art))
      /\ ModesOf(tasks[k].prompt.modes) = ActiveModes(tasks[k].art)

\* C16 witness: a submission with all three flags active carries the three
\* blocks in the order emergency, crazy, fakeNews.
C16_Witness ==
  \E k \in DOMAIN tasks :
    /\ IsPublish(k)
    /\ tasks[k].art.isFakeNews /\ tasks[k].art.isCrazyMode /\ tasks[k].art.isEmergencyMode
    /\ ModesOf(tasks[k].prompt.modes) = << "emergency", "crazy", "fakeNews" >>

\* C17: the normal-mode block is in the prompt if and only if none of the
\* three flags is active, and then it is the only block; the block list is
\* never empty.
C17_NormalBlockIffNoMode ==
  \A k \in DOMAIN tasks :
    IsPublish(k) =>
      LET modes == ModesOf(tasks[k].prompt.modes)
          normal == \E i \in DOMAIN modes : modes[i] = "normal"
      IN /\ modes # <<>>
         /\ normal <=> (ActiveModes(tasks[k].art) = <<>>)
         /\ normal => modes = << "normal" >>

\* C17 witness: a submission with no flag active carries the normal block alone.
C17_Witness ==
  \E k \in DOMAIN tasks :
    /\ IsPublish(k)
    /\ ~tasks[k].art.isFakeNews /\ ~tasks[k].art.isCrazyMode /\ ~tasks[k].art.isEmergencyMode
    /\ tasks[k].prompt.modes = << NormalBlock >>

\* The bracket the era rules give year y
ClaimedBracket(y) ==
  IF y < 1990 THEN "pre1990"
  ELSE IF y <= 1999 THEN "pc-comm"
  ELSE IF y <= 2009 THEN "early-web"
  ELSE IF y > CurrentYear + 5 THEN "future"
  ELSE "default"

\* C18: with time-travel mode on and an integer target year y, the era text
\* of a request (of a submission and of a reply alike) is that of exactly the
\* bracket the rules give y, and it carries y.
C18_EraBracketByYear ==
  \A k \in DOMAIN tasks :
    (tasks[k].art.isTimeMachineMode /\ ~TargetYear(tasks[k].art).nan) =>
      /\ tasks[k].prompt.era.bracket = ClaimedBracket(TargetYear(tasks[k].art).n)
      /\ tasks[k].prompt.era.year = TargetYear(tasks[k].art)

\* C18 witness: a submission for the boundary year 1990 carries the
\* text-terminal bracket.
C18_Witness ==
  \E k \in DOMAIN tasks :
    /\ IsPublish(k)
    /\ tasks[k].art.isTimeMachineMode
    /\ tasks[k].art.targetYear = << "1", "9", "9", "0" >>
    /\ tasks[k].prompt.era.bracket = "pc-comm"

\* Online social platform categories among what a prompt text can name
OnlinePlatforms ==
  { "SNS", "online-comment", "community", "anonymous-board", "portal" }

\* Everything the sections of an analyzeArticle prompt name
PromptMentions(prompt) ==
  (prompt.era.mentions \cup prompt.requirements.mentions)
    \cup UNION { prompt.modes[i].mentions : i \in DOMAIN prompt.modes }

\* C19 (as claimed): a submission with time-travel mode on and a target year
\* before 1990 carries the pre-1990 era text, and no section of its prompt
\* names an online social platform.
C19_NoOnlinePlatformBefore1990 ==
  \A k \in DOMAIN tasks :
    (IsPublish(k) /\ tasks[k].art.isTimeMachineMode
       /\ Lt(TargetYear(tasks[k].art), 1990)) =>
      /\ tasks[k].prompt.era.bracket = "pre1990"
      /\ PromptMentions(tasks[k].prompt) \cap OnlinePlatforms = {}

\* ------------------------------------------------- the result, by its steps
\* The number of pending submissions
PendingPublishes(ts) == Len(SelectSeq(ts, LAMBDA t : t.kind = "publish"))

\* This step is handleReset or handleLoadHistory: the result becomes null with
\* the app in EDITOR, or a result kept in the history with the app in RESULT
ResetOrLoad ==
  \/ result' = NullResult /\ appState' = "EDITOR"
  \/ /\ appState' = "RESULT"
     /\ \E i \in DOMAIN history : result' = history[i].result /\ history' = history

\* C20: the result state changes only when a submission completes, at reset
\* or at a history load; a completing submission assigns it once, in the step
\* in which its last call has settled and analyzeArticle has resolved, with
\* what analyzeArticle resolved with; and as long as the app stays in
\* SIMULATING the result keeps its value.
C20_NoPartialResult ==
  [][ /\ (appState = "SIMULATING" /\ appState' = "SIMULATING") => result' = result
      /\ (result' # result /\ ~ResetOrLoad) =>
           /\ settled'.kind = "publish"
           /\ settled'.decision # "retry"
           /\ PendingPublishes(tasks') = PendingPublishes(tasks) - 1
           /\ result' = settled'.promise.value
      /\ PendingPublishes(tasks') >= PendingPublishes(tasks) =>
           (result' = result \/ ResetOrLoad) ]_vars

\* C20 witness: a submission has completed after two rate-limit retries; the
\* result is what analyzeArticle resolved with, comments included.
C20_Witness ==
  /\ settled.kind = "publish"
  /\ settled.calls = 3
  /\ result = settled.promise.value
  /\ result.comments # <<>>
  /\ appState = "RESULT"

\* ------------------------------------------- the conversation, by its steps
\* The same result is displayed before and after this step
StaysDisplayed ==
  /\ Mounted(appState, result)
  /\ Mounted(appState', result')
  /\ result'.oid = result.oid

\* C21: in every step in which the displayed conversation stays (the same
\* result displayed before and after), the conversation keeps its comments
\* and each comment's reply sequence is unchanged or extended at its end:
\* the earlier sequence is a prefix of the later one.
C21_AppendOnlyConversation ==
  [][ StaysDisplayed =>
        /\ DOMAIN dashboard'.localComments = DOMAIN dashboard.localComments
        /\ \A i \in DOMAIN dashboard.localComments :
             IsPrefix(dashboard.localComments[i].replies,
                      dashboard'.localComments[i].replies) ]_vars

\* C21 witness: two reply flows on one comment have run to their end, and
\* its reply sequence starts with the generated comment's replies and has
\* grown by two user replies and two generated replies at least.
C21_Witness ==
  /\ Mounted(appState, result)
  /\ tasks = <<>>
  /\ nReply = 2
  /\ \E i \in DOMAIN dashboard.localComments :
       /\ IsPrefix(GeneratedComments[i].replies, dashboard.localComments[i].replies)
       /\ Len(dashboard.localComments[i].replies)
            >= Len(GeneratedComments[i].replies) + 4

\* Comment c with the reply sequence rs in place of its own
WithReplies(c, rs) == [ c EXCEPT !.replies = rs ]

\* C22: whenever a result is displayed, the conversation holds as many
\* comments as the decoded result, in the same order, each equal to the
\* result's comment at that position in everything but its replies: no reply
\* submission, sub-flow completion or filter change adds, removes or reorders
\* comments.
C22_CommentsAsDecoded ==
  Mounted(appState, result) =>
    /\ Len(dashboard.localComments) = Len(result.comments)
    /\ \A i \in DOMAIN dashboard.localComments :
         WithReplies(dashboard.localComments[i], result.comments[i].replies)
           = result.comments[i]

\* C22 witness: a platform filter hides a comment, and a reply flow started
\* under it has run to its end with generated replies appended.
C22_Witness ==
  /\ Mounted(appState, result)
  /\ dashboard.selectedPlatform # "ALL"
  /\ Len(FilteredComments(dashboard.selectedPlatform, dashboard.localComments))
       < Len(dashboard.localComments)
  /\ tasks = <<>>
  /\ nReply >= 1
  /\ \E i \in DOMAIN dashboard.localComments :
       Len(dashboard.localComments[i].replies) >= Len(result.comments[i].replies) + 3

\* ------------------------------------------------- the history, by its steps
\* The position in history' of the entry at position i of history, counted
\* from the oldest entry (new entries are put in front)
SamePosition(i) == Len(history') - Len(history) + i

\* C23: once an entry is in the history it stays there, with the article and
\* the result (every comment's reply sequence included) it was stored with:
\* no step changes it, whether it edits or re-flags the live article, runs a
\* reply flow on that result, resets, starts a follow-up or loads the entry.
C23_HistoryEntriesImmutable ==
  [][ /\ Len(history') >= Len(history)
      /\ \A i \in DOMAIN history : history'[SamePosition(i)] = history[i] ]_vars

\* C23 witness: an entry was loaded from the history, the crazy-mode code has
\* changed the live article since, and a reply flow on the entry's result has
\* run to its end; the entry still holds its own article and result.
C23_Witness ==
  /\ appState = "RESULT"
  /\ tasks = <<>>
  /\ nReply = 1
  /\ \E i \in DOMAIN history :
       /\ result = history[i].result
       /\ article.isCrazyMode /\ ~history[i].article.isCrazyMode
       /\ \E c \in DOMAIN dashboard.localComments :
            Len(dashboard.localComments[c].replies)
              > Len(history[i].result.comments[c].replies)

\* ------------------------------------------- a submission and its article
\* This step starts a submission
PublishStarted ==
  /\ Len(tasks') = Len(tasks) + 1
  /\ tasks'[Len(tasks')].kind = "publish"

\* This step completes pending submission k
PublishCompleted(k) ==
  /\ k \in DOMAIN tasks
  /\ IsPublish(k)
  /\ Len(tasks') = Len(tasks) - 1
  /\ \A j \in DOMAIN tasks' :
       [ tasks'[j] EXCEPT !.live = TRUE ] = [ RemoveAt(tasks, k)[j] EXCEPT !.live = TRUE ]

\* The modes a request for article a is to carry
RequestedModes(a) ==
  IF ActiveModes(a) = <<>> THEN << "normal" >> ELSE ActiveModes(a)

\* C24: a submission takes the article as it is when publish is triggered:
\* its request is built from that article, the pending submission keeps
\* article and request whatever happens to the live article meanwhile (PIN
\* codes, history load, reset), and the history entry its completion creates
\* stores that article.
C24_ArticleSnapshotted ==
  [][ /\ PublishStarted =>
           LET t == tasks'[Len(tasks')]
           IN /\ t.art = article
              /\ t.prompt.title = article.title
              /\ t.prompt.author = article.author
              /\ ModesOf(t.prompt.modes) = RequestedModes(article)
      /\ \A j \in DOMAIN tasks' :
           tasks'[j].kind = "publish" =>
             \/ j = Len(tasks') /\ PublishStarted
             \/ \E k \in DOMAIN tasks :
                  /\ IsPublish(k)
                  /\ tasks[k].art = tasks'[j].art
                  /\ tasks[k].prompt = tasks'[j].prompt
      /\ \A k \in DOMAIN tasks :
           PublishCompleted(k) =>
             /\ Len(history') = Len(history) + 1
             /\ history'[1].article = tasks[k].art
             /\ history'[1].result = result' ]_vars

\* C24 witness: the second submission was made with a title, the live article
\* lost it while the submission was in flight (a history load or a reset
\* put another article in its place), and the entry of the completed
\* submission holds the article with the title.
C24_Witness ==
  /\ Len(history) = 2
  /\ appState = "RESULT"
  /\ result = history[1].result
  /\ history[1].article.title = 1
  /\ article.title = 0

\* C25 (as claimed): the replies of the displayed conversation are part of
\* the displayed result: whenever a result is displayed, each of its comments
\* holds the reply sequence the conversation shows for it, so that the
\* result shows them again when it is displayed another time.
C25_RepliesKeptInResult ==
  Mounted(appState, result) =>
    \A i \in DOMAIN dashboard.localComments :
      /\ i \in DOMAIN result.comments
      /\ result.comments[i].replies = dashboard.localComments[i].replies

\* ------------------------------------------------ the retry policy, by steps
\* This step is the retry of the failed call of pending invocation k
Retried(k) ==
  /\ k \in DOMAIN tasks
  /\ tasks[k].phase = "call"
  /\ Len(tasks') = Len(tasks)
  /\ tasks'[k].phase = "wait"

\* The last element of a non-empty sequence
Last(q) == q[Len(q)]

\* C26: a failed call is retried if and only if retry budget remains and the
\* failure is classified as rate-limiting (status 429, or code 429, or a
\* message containing "429"): every retry follows such a failure with budget
\* left, and every failure that retryRequest throws is either not of that
\* class (a failure with no message field included) or was met with the
\* budget of three retries used up.
C26_RetryIffBudgetAndRateLimit ==
  [][ /\ \A k \in DOMAIN tasks :
           Retried(k) =>
             /\ tasks[k].retries > 0
             /\ Len(tasks[k].waits) < 3
             /\ Last(tasks'[k].outs) = "rate"
      /\ (settled'.kind # "none" /\ ~settled'.final.ok) =>
           /\ settled'.decision = "throw"
           /\ (Last(settled'.outs) # "rate" \/ Len(settled'.waits) = 3)
           /\ OutcomeClass(settled'.final) = Last(settled'.outs) ]_vars

\* C26 witness: a failure that carries "429" only in its message was thrown
\* after three retries, the budget being used up.
C26_Witness ==
  /\ settled.kind # "none"
  /\ settled.final = Rejected(MkError(0, 0, TRUE, << "e", "4", "2", "9" >>))
  /\ Len(settled.waits) = 3
  /\ settled.decision = "throw"

\* ------------------------------------------ the reply request, by its input
\* Pending invocation k is a reply sub-flow (generateReplyReaction has
\* composed its prompt)
IsReply(k) == tasks[k].kind = "reply"

\* The mode lines of a reply prompt that are not empty, in their order
ListedModes(prompt) == SelectSeq(prompt.modes, LAMBDA m : m # "")

\* C27: the request of a reply sub-flow is framed like the request of the
\* primary simulation of the same article: for every target year and either
\* value of the time-travel flag its era text is that of the bracket which
\* analyzeArticle selects, and its mode lines list exactly the active flags
\* among emergency, crazy, fakeNews, in that order.
C27_ReplyContextAsPrimary ==
  \A k \in DOMAIN tasks :
    IsReply(k) =>
      /\ tasks[k].prompt.era.bracket = EraBracket(tasks[k].art)
      /\ ListedModes(tasks[k].prompt) = ActiveModes(tasks[k].art)

\* C27 witness: a reply sub-flow for an article of the boundary year 2000
\* with the emergency and fake-news flags is pending; its request carries the
\* early-web era text and the two mode lines.
C27_Witness ==
  \E k \in DOMAIN tasks :
    /\ IsReply(k)
    /\ tasks[k].art.isTimeMachineMode
    /\ tasks[k].art.targetYear = << "2", "0", "0", "0" >>
    /\ tasks[k].prompt.era.bracket = "early-web"
    /\ ListedModes(tasks[k].prompt) = << "emergency", "fakeNews" >>

\* The era text of a request of the given kind for the initial article, whose
\* time-machine switch is off
ContemporaryEra(kind) ==
  IF kind = "publish" THEN EraContextFull(INITIAL_ARTICLE)
  ELSE GetEraContext(INITIAL_ARTICLE)

\* C28: with time-travel mode off the era text of a request, of a submission
\* and of a reply alike, is the contemporary one, the same for every stored
\* target year.
C28_StoredYearIgnoredWhenOff ==
  \A k \in DOMAIN tasks :
    ~tasks[k].art.isTimeMachineMode =>
      /\ tasks[k].prompt.era.bracket = "present"
      /\ tasks[k].prompt.era = ContemporaryEra(tasks[k].kind)

\* C28 witness: a submission with the switch off and the stored year 1985
\* carries the contemporary era text.
C28_Witness ==
  \E k \in DOMAIN tasks :
    /\ IsPublish(k)
    /\ ~tasks[k].art.isTimeMachineMode
    /\ tasks[k].art.targetYear = << "1", "9", "8", "5" >>
    /\ tasks[k].prompt.era.bracket = "present"

\* The stored target year of article a is not meaningful: absent or empty, or
\* text that is no number
NotMeaningfulYear(a) == a.targetYear = <<>> \/ ParseInt(a.targetYear).nan

\* C29 (as claimed): with time-travel mode on and a target year that is not
\* meaningful, the effective year is the current year: the request carries
\* the contemporary default bracket and its era text names the current year.
C29_NotMeaningfulYearIsCurrentYear ==
  \A k \in DOMAIN tasks :
    (tasks[k].art.isTimeMachineMode /\ NotMeaningfulYear(tasks[k].art)) =>
      /\ tasks[k].prompt.era.bracket = "default"
      /\ tasks[k].prompt.era.year = Num(CurrentYear)

\* The number of active flags of article a among the four mode flags
ActiveFlagCount(a) ==
  Cardinality({ f \in { "fakeNews", "crazy", "emergency", "timeMachine" } :
                  \/ f = "fakeNews" /\ a.isFakeNews
                  \/ f = "crazy" /\ a.isCrazyMode
                  \/ f = "emergency" /\ a.isEmergencyMode
                  \/ f = "timeMachine" /\ a.isTimeMachineMode })

\* C30 (as claimed): for every combination of the four mode flags with at
\* least one flag active, the request of a submission holds exactly one
\* instruction block per active flag and no normal-mode block.
C30_OneBlockPerFlagOfFour ==
  \A k \in DOMAIN tasks :
    (IsPublish(k) /\ ActiveFlagCount(tasks[k].art) >= 1) =>
      /\ Len(tasks[k].prompt.modes) = ActiveFlagCount(tasks[k].art)
      /\ \A i \in DOMAIN tasks[k].prompt.modes :
           tasks[k].prompt.modes[i].mode # "normal"

\* This step is a follow-up: the displayed result is left for the editor
\* and the article is not the initial article (which reset restores)
FollowUpStep ==
  /\ Mounted(appState, result)
  /\ appState' = "EDITOR"
  /\ article' # INITIAL_ARTICLE

\* Request p holds the prior-context section right after the era framing and
\* right before the article metadata
PriorContextBetween(p) ==
  \E i \in DOMAIN p.sections :
    /\ p.sections[i] = "previousContext"
    /\ i > 1 /\ i < Len(p.sections)
    /\ p.sections[i - 1] = "era"
    /\ p.sections[i + 1] = "article"

\* C31: a follow-up puts the app in EDITOR with a null result and an article
\* that keeps category, author, the four mode flags and targetYear, has empty
\* title and content and a non-empty previousArticleContext made of the
\* previous article's title and content and the previous result's sentiment
\* and impact summary; the request of a submission built from an article with
\* previousArticleContext holds the prior-context section between era framing
\* and article metadata, and a request built from an article without it
\* holds no prior-context section.
C31_FollowUpCarriesContext ==
  [][ /\ FollowUpStep =>
           /\ result' = NullResult
           /\ article'.category = article.category
           /\ article'.author = article.author
           /\ article'.isFakeNews = article.isFakeNews
           /\ article'.isCrazyMode = article.isCrazyMode
           /\ article'.isEmergencyMode = article.isEmergencyMode
           /\ article'.isTimeMachineMode = article.isTimeMachineMode
           /\ article'.targetYear = article.targetYear
           /\ article'.title = 0
           /\ article'.content = 0
           /\ article'.previousArticleContext # <<>>
           /\ article'.previousArticleContext =
                << article.title, article.content,
                   result.publicSentiment, result.impactSummary >>
      /\ \A k \in DOMAIN tasks' :
           tasks'[k].kind = "publish" =>
             IF tasks'[k].art.previousArticleContext # <<>>
             THEN /\ PriorContextBetween(tasks'[k].prompt)
                  /\ tasks'[k].prompt.previousContext[2] = tasks'[k].art.previousArticleContext
             ELSE /\ \A i \in DOMAIN tasks'[k].prompt.sections :
                       tasks'[k].prompt.sections[i] # "previousContext"
                  /\ tasks'[k].prompt.previousContext = <<>> ]_vars

\* C31 witness: a follow-up of an article with a category other than the
\* initial one, with content, a mode flag and a year of its own has been
\* submitted, after a first submission without prior context
C31_Witness ==
  /\ Len(history) = 1
  /\ history[1].article.previousArticleContext = <<>>
  /\ \E k \in DOMAIN tasks :
       /\ tasks[k].kind = "publish"
       /\ tasks[k].art.previousArticleContext # <<>>
       /\ tasks[k].art.previousArticleContext[2] = 1
       /\ tasks[k].art.category = "politics"
       /\ tasks[k].art.isFakeNews
       /\ tasks[k].art.targetYear = << "1", "9", "8", "5" >>
       /\ "previousContext" \in { tasks[k].prompt.sections[i] : i \in DOMAIN tasks[k].prompt.sections }

\* Articles a and b agree on every field but the four mode flags
SameButModeFlags(a, b) ==
  [ a EXCEPT !.isFakeNews = FALSE, !.isCrazyMode = FALSE,
             !.isEmergencyMode = FALSE, !.isTimeMachineMode = FALSE ]
    = [ b EXCEPT !.isFakeNews = FALSE, !.isCrazyMode = FALSE,
                 !.isEmergencyMode = FALSE, !.isTimeMachineMode = FALSE ]

\* This step closes the shown PIN modal with its input cleared: a submission
\* of the PIN form (cancelling keeps the input)
PinSubmitStep ==
  /\ pin.showPinModal
  /\ ~pin'.showPinModal
  /\ pin'.pinInput = <<>>

\* C32: submitting 6666 sets isCrazyMode and submitting 9453 sets
\* isEmergencyMode, leaving every other flag and field of the article as it
\* was; submitting 0000 clears the four mode flags and nothing else; any
\* other code leaves the article unchanged; and every step that changes the
\* article while the PIN modal is shown closes the modal and clears the input.
C32_PinSetsModesIndependently ==
  [][ /\ PinSubmitStep =>
           /\ pin.pinInput = PinCrazy =>
                /\ article'.isCrazyMode
                /\ article' = [ article EXCEPT !.isCrazyMode = TRUE ]
           /\ pin.pinInput = PinEmergency =>
                /\ article'.isEmergencyMode
                /\ article' = [ article EXCEPT !.isEmergencyMode = TRUE ]
           /\ pin.pinInput = PinClear =>
                /\ ~article'.isFakeNews /\ ~article'.isCrazyMode
                /\ ~article'.isEmergencyMode /\ ~article'.isTimeMachineMode
                /\ SameButModeFlags(article', article)
           /\ pin.pinInput \notin { PinCrazy, PinEmergency, PinClear } =>
                article' = article
      /\ (pin.showPinModal /\ article' # article) =>
           (~pin'.showPinModal /\ pin'.pinInput = <<>>) ]_vars

\* C32 witness: both secret modes, which only the codes 6666 and 9453 set
\* here, are active together next to fake-news and time-travel mode on an
\* article with a title, the modal closed and its input cleared
C32_Witness ==
  /\ article.isCrazyMode /\ article.isEmergencyMode
  /\ article.isFakeNews /\ article.isTimeMachineMode
  /\ article.title = 1
  /\ ~pin.showPinModal /\ pin.pinInput = <<>> /\ pin.secretClickCount = 0

\* The direction class a colour class stands for: red is up, blue is down,
\* gray is unchanged
DirectionOf(className) ==
  IF className = "text-red-600" THEN "up"
  ELSE IF className = "text-blue-600" THEN "down"
  ELSE "unchanged"

\* C33 (as claimed): for every StockAnalysis the market panel shows, with
\* d = endValue - startValue, the index's marker and colour show the
\* direction class in which a sector with change d is shown.
C33_IndexDirectionAsSectorSign ==
  \A i \in DOMAIN ShownStocks(appState, result) :
    LET stockData == ShownStocks(appState, result)[i]
        d == StockDiff(stockData)
    IN /\ DirectionOf(IndexClassName(stockData)) = DirectionOf(SectorClassName(d))
       /\ (DirectionOf(SectorClassName(d)) = "up") <=> (IndexMarker(stockData) = "up")

\* C34 (as claimed): whenever the app shows a result, the article shown with
\* it, mode flags and targetYear included, is the article that was submitted
\* to produce that result: the two are the article and result of one history
\* entry.
C34_ShownArticleProducedResult ==
  appState = "RESULT" =>
    \E i \in DOMAIN history :
      /\ history[i].result = result
      /\ history[i].article = article

\* C35 (as claimed): when a reply sub-flow settles after the displayed result
\* changed while it was in flight (the conversation was re-initialised from
\* the new result, so the position addressed no longer holds the user reply
\* that triggered the call), the replies it returns are appended to no
\* comment of the newly displayed result.
C35_LateRepliesNotOnNewResult ==
  [][ \A k \in DOMAIN tasks :
        ( /\ SettlesLiveReply(k)
          /\ ~( /\ tasks[k].idx \in DOMAIN dashboard.localComments
                /\ HasReply(dashboard.localComments[tasks[k].idx].replies,
                            UserReplyOf(tasks[k])) ) )
          => dashboard'.localComments = dashboard.localComments ]_vars

\* C36: in every reachable state in which the app is in RESULT the result is
\* not null, however publish starts and completions, reset, follow-up and
\* history loads interleave (a response that decodes, decodes to an object,
\* as the response schema has it).
C36_ResultShownIsNotNull ==
  appState = "RESULT" => result # NullResult

\* C36 witness: after two completed submissions the app is in RESULT with
\* the result of the older history entry, loaded from the history, and a
\* reply sub-flow is pending
C36_Witness ==
  /\ appState = "RESULT"
  /\ result # NullResult
  /\ Len(history) = 2
  /\ result = history[2].result
  /\ \E k \in DOMAIN tasks : tasks[k].kind = "reply"

\* C37: every submission eventually completes: once publish has put the app
\* in SIMULATING with its simulation pending, a later state has no simulation
\* pending and the app in RESULT or EDITOR, given that every call settles and
\* every backoff timer fires; the retry schedule does not keep it pending.
C37_SubmissionEventuallyCompletes ==
  (appState = "SIMULATING" /\ \E k \in DOMAIN tasks : IsPublish(k))
    ~> ( /\ appState \in { "RESULT", "EDITOR" }
         /\ \A k \in DOMAIN tasks : ~IsPublish(k) )

\* C37 witness: a submission whose first two calls failed with a rate-limit
\* signal has completed with the third, and the app shows its result
C37_Witness ==
  /\ settled.kind = "publish"
  /\ settled.outs = << "rate", "rate", "ok" >>
  /\ settled.waits = << 2000, 4000 >>
  /\ appState = "RESULT"
  /\ \A k \in DOMAIN tasks : ~IsPublish(k)

\* C38: the history grows only by publishing: a step changes the history
\* exactly when it completes a submission, and then it puts exactly one new
\* entry, holding the new result, in front of the entries that were there,
\* which keep their order; the length never decreases, and reset, follow-up,
\* history load, PIN entry and the reply flow leave the history as it is.
C38_HistoryGrowsOnlyByPublishing ==
  [][ /\ Len(history') >= Len(history)
      /\ (history' # history) <=> (\E k \in DOMAIN tasks : PublishCompleted(k))
      /\ (history' # history) =>
           /\ Len(history') = Len(history) + 1
           /\ Tail(history') = history
           /\ Head(history').result = result' ]_vars

\* C38 witness: two submissions have completed, the second a follow-up of
\* the first, the newer entry stands first, and the older entry was loaded
\* from the history and a PIN code submitted since
C38_Witness ==
  /\ Len(history) = 2
  /\ history[1].result.oid = 2
  /\ history[2].result.oid = 1
  /\ history[1].article.previousArticleContext # <<>>
  /\ history[2].article.previousArticleContext = <<>>
  /\ appState = "RESULT"
  /\ result = history[2].result
  /\ article.isCrazyMode
  /\ ~history[2].article.isCrazyMode

\* C39: analyzeArticle never rejects, and when its call failed (rate limit
\* past the retry budget, another transport failure, absent text or malformed
\* text) it resolves with a placeholder: the three scores and the two counts
\* are 0, publicSentiment is "Error", comments and otherMediaCoverage are
\* empty, and there is no stockAnalysis and no extraIndices.
C39_AnalyzeResolvesWithPlaceholder ==
  settled.kind = "publish" =>
    /\ ~settled.promise.rejected
    /\ CallFailed(settled) =>
         LET r == settled.promise.value
         IN /\ r.viralityScore = 0
            /\ r.reliabilityScore = 0
            /\ r.controversyScore = 0
            /\ r.viewCountEstimate = 0
            /\ r.shareCount = 0
            /\ r.publicSentiment = "Error"
            /\ r.comments = <<>>
            /\ r.otherMediaCoverage = <<>>
            /\ "stockAnalysis" \notin DOMAIN r
            /\ "extraIndices" \notin DOMAIN r

\* C39 witness: a submission whose call was answered with malformed text has
\* settled, and analyzeArticle resolved with the placeholder
C39_Witness ==
  /\ settled.kind = "publish"
  /\ settled.final.ok
  /\ TruthyText(settled.final.text)
  /\ ~settled.final.text.wellFormed
  /\ ~settled.promise.rejected
  /\ settled.promise.value.publicSentiment = "Error"
  /\ result = settled.promise.value

\* String s is empty or holds only whitespace
OnlyWhitespace(s) == \A i \in DOMAIN s : s[i] = Blank

\* C40: a reply whose text is empty or only whitespace is rejected with no
\* effect: while the draft is such a text, no step issues a sub-flow call,
\* sets the pending indicator or appends a reply with such a text to any
\* comment, and the draft and the open reply form change only by the user's
\* typing, cancelling or choosing another comment (never by a submission,
\* which would clear the draft and close the form at once); no pending
\* sub-flow call carries such a text.
C40_BlankReplyRejected ==
  [][ /\ (Mounted(appState, result) /\ OnlyWhitespace(dashboard.replyText)) =>
           /\ Len(tasks') <= Len(tasks)
           /\ nReply' = nReply
           /\ dashboard'.generatingReplyId \in { dashboard.generatingReplyId, Null }
           /\ Mounted(appState', result') =>
                \A i \in DOMAIN dashboard'.localComments :
                  \A m \in DOMAIN dashboard'.localComments[i].replies :
                    ~OnlyWhitespace(dashboard'.localComments[i].replies[m].content)
      /\ \A k \in DOMAIN tasks' :
           tasks'[k].kind = "reply" => ~OnlyWhitespace(tasks'[k].text) ]_vars

\* C40 witness: the reply form is open with a draft of one blank, nothing is
\* pending, no reply was accepted and no comment has got a reply
C40_Witness ==
  /\ Mounted(appState, result)
  /\ dashboard.replyingTo # Null
  /\ dashboard.replyText = << " " >>
  /\ dashboard.generatingReplyId = Null
  /\ tasks = <<>>
  /\ nReply = 0
  /\ dashboard.localComments = result.comments
====
